---------------------------- MODULE Spec2Model ----------------------------
(***************************************************************************)
(* A model of the core of dhall-rust's import environment, name            *)
(* environment (semantics/resolve/env.rs) and typechecker                  *)
(* (semantics/tck/typecheck.rs).                                           *)
(*                                                                         *)
(* Three specifications share the module:                                  *)
(*   Spec      - ImportEnv: memory cache, persistent cache, cycle stack    *)
(*   SpecNames - NameEnv: push/pop of labels, unlabel_var, label_var       *)
(*   SpecTck   - typecheck / typecheck_with applied to bounded expressions *)
(* Each one leaves the variables of the other two untouched.               *)
(*                                                                         *)
(* Option<T> is modelled as a sequence: <<>> is None and <<v>> is Some(v). *)
(***************************************************************************)
EXTENDS Integers, Sequences, FiniteSets, TLC

VARIABLES
    file_cache,  \* ImportEnv.file_cache : Option<Cache>
    mem_cache,   \* ImportEnv.mem_cache  : HashMap<ImportLocation, Typed>
    stack,       \* ImportEnv.stack      : Vec<ImportLocation>
    frames,      \* with_cycle_detection calls whose do_resolve is running
    written,     \* history: the last Typed given to set_cache per location
    ret,         \* the last completed ImportEnv call, with its state at entry
    names,       \* NameEnv.names : Vec<Label>
    nret,        \* the last completed NameEnv call
    input,       \* the resolved expression given to the typechecker
    wraps,       \* the number of constructors added around the first one
    runs,        \* the runs of typecheck(input) made so far, at most two
    annotated,   \* the run of typecheck_with(input, T), T from the first run
    fn_ret       \* the last completed function_check / type_of_function call

importVars == <<file_cache, mem_cache, stack, frames, written, ret>>
nameVars == <<names, nret>>
tckVars == <<input, wraps, runs, annotated>>
fnVars == <<fn_ret>>
vars == <<file_cache, mem_cache, stack, frames, written, ret, names, nret,
          input, wraps, runs, annotated, fn_ret>>

(***************************************************************************)
(* Bounds of the model.                                                    *)
(***************************************************************************)
NumLocations == 2
NumTyped == 2
MaxNames == 3
MaxWraps == 2
MaxMapKeys == 2

Locations == 1..NumLocations
Typeds == 1..NumTyped
\* One key of the persistent cache: a call probes or writes one key, and
\* entries under other keys play no part in it.
Hashes == {"h1"}
Labels == {"x", "y"}

None == <<>>
Some(v) == <<v>>
IsSome(o) == o # <<>>
Unwrap(o) == o[1]
OptionOf(S) == {None} \cup {Some(v) : v \in S}

Contains(s, x) == \E i \in 1..Len(s) : s[i] = x
Push(s, x) == Append(s, x)
Pop(s) == SubSeq(s, 1, Len(s) - 1)

(***************************************************************************)
(* The persistent cache (crate::semantics::Cache) is an external           *)
(* collaborator: a map Hash -> Typed whose operations may fail.            *)
(***************************************************************************)
CacheStates == [Hashes -> OptionOf(Typeds)]

\* Cache::get(hash): every answer the cache may give, Err as None.
CacheGet(cache, hash) ==
    {None} \cup (IF IsSome(cache[hash]) THEN {cache[hash]} ELSE {})

\* Cache::insert(hash, expr): every cache that may result (failure: unchanged).
CacheInsert(cache, hash, expr) ==
    {cache, [cache EXCEPT ![hash] = Some(expr)]}

(***************************************************************************)
(* Results of ImportEnv calls.                                             *)
(***************************************************************************)
Res(tag, v, st, l) == [tag |-> tag, v |-> v, stack |-> st, loc |-> l]
ResNone == Res("None", None, <<>>, None)
ResSome(t) == Res("Some", Some(t), <<>>, None)
ResUnit == Res("Unit", None, <<>>, None)
ResOk(t) == Res("Ok", Some(t), <<>>, None)
ResErrOther == Res("Err", None, <<>>, None)
ImportCycle(st, l) == Res("ImportCycle", None, st, Some(l))

Call(op, l, h, r, probed) ==
    [op |-> op, loc |-> l, hash |-> h, result |-> r, probed |-> probed,
     pre_stack |-> stack, pre_mem |-> mem_cache, pre_depth |-> Len(frames)]

(***************************************************************************)
(* ImportEnv::new                                                          *)
(***************************************************************************)
ImportEnvNew ==
    /\ file_cache \in OptionOf(CacheStates)   \* Cache::new().ok()
    /\ mem_cache = [l \in Locations |-> None]
    /\ stack = <<>>

(***************************************************************************)
(* ImportEnv::get_from_cache.  lookup is the answer the persistent cache   *)
(* gives if it is asked; probed records whether it was asked.              *)
(***************************************************************************)
get_from_cache_FileFirst(location, hash, lookup) ==
    IF IsSome(hash) /\ IsSome(file_cache) /\ IsSome(lookup)
    THEN [result |-> ResSome(Unwrap(lookup)), probed |-> TRUE]
    ELSE IF IsSome(mem_cache[location])
    THEN [result |-> ResSome(Unwrap(mem_cache[location])), probed |-> FALSE]
    ELSE [result |-> ResNone, probed |-> IsSome(hash) /\ IsSome(file_cache)]

get_from_cache_PropagateErr(location, hash, lookup) ==
    IF IsSome(mem_cache[location])
    THEN [result |-> ResSome(Unwrap(mem_cache[location])), probed |-> FALSE]
    ELSE IF hash = None THEN [result |-> ResNone, probed |-> FALSE]
    ELSE IF file_cache = None THEN [result |-> ResNone, probed |-> FALSE]
    ELSE IF lookup = None THEN [result |-> ResErrOther, probed |-> TRUE]
    ELSE [result |-> ResSome(Unwrap(lookup)), probed |-> TRUE]

get_from_cache(location, hash, lookup) ==
    IF IsSome(mem_cache[location])
    THEN [result |-> ResSome(Unwrap(mem_cache[location])), probed |-> FALSE]
    ELSE IF hash = None THEN [result |-> ResNone, probed |-> FALSE]
    ELSE IF file_cache = None THEN [result |-> ResNone, probed |-> FALSE]
    ELSE IF lookup = None THEN [result |-> ResNone, probed |-> TRUE]
    ELSE [result |-> ResSome(Unwrap(lookup)), probed |-> TRUE]

\* A hit in the persistent cache copied into the memory cache.
GetFromCache_FillsMemory(location, hash) ==
    \E lookup \in (IF IsSome(hash) /\ IsSome(file_cache)
                   THEN CacheGet(Unwrap(file_cache), Unwrap(hash))
                   ELSE {None}) :
        LET r == get_from_cache(location, hash, lookup) IN
        /\ ret' = Call("get", Some(location), hash, r.result,
                       IF r.probed THEN Some(lookup) ELSE None)
        /\ mem_cache' = IF r.probed /\ IsSome(lookup)
                        THEN [mem_cache EXCEPT ![location] = lookup]
                        ELSE mem_cache
        /\ UNCHANGED <<file_cache, stack, frames, written>>

GetFromCache(location, hash) ==
    \E lookup \in (IF IsSome(hash) /\ IsSome(file_cache)
                   THEN CacheGet(Unwrap(file_cache), Unwrap(hash))
                   ELSE {None}) :
        LET r == get_from_cache(location, hash, lookup) IN
        /\ ret' = Call("get", Some(location), hash, r.result,
                       IF r.probed THEN Some(lookup) ELSE None)
        /\ UNCHANGED <<file_cache, mem_cache, stack, frames, written>>

(***************************************************************************)
(* ImportEnv::set_cache                                                    *)
(***************************************************************************)
SetCache(location, hash, expr) ==
    /\ IF IsSome(file_cache) /\ IsSome(hash)
       THEN \E c \in CacheInsert(Unwrap(file_cache), Unwrap(hash), expr) :
                file_cache' = Some(c)
       ELSE file_cache' = file_cache
    /\ mem_cache' = [mem_cache EXCEPT ![location] = Some(expr)]
    /\ written' = [written EXCEPT ![location] = Some(expr)]
    /\ ret' = Call("set", Some(location), hash, ResUnit, None)
    /\ UNCHANGED <<stack, frames>>

(***************************************************************************)
(* ImportEnv::with_cycle_detection.  The call is split where it hands      *)
(* control to do_resolve: WithCycleDetectionEnter runs the code up to the  *)
(* invocation (or the whole call when a cycle is found), and               *)
(* WithCycleDetectionReturn runs the code after do_resolve has returned    *)
(* result.  In between do_resolve may make any ImportEnv call.             *)
(***************************************************************************)
Frame(l) == [loc |-> l, entry |-> stack]

WithCycleDetectionEnter_TopOnly(location) ==
    IF stack # <<>> /\ stack[Len(stack)] = location
    THEN /\ ret' = Call("wcd_cycle", Some(location), None,
                        ImportCycle(stack, location), None)
         /\ UNCHANGED <<file_cache, mem_cache, stack, frames, written>>
    ELSE /\ Len(stack) <= NumLocations
         /\ stack' = Push(stack, location)
         /\ frames' = Push(frames, Frame(location))
         /\ ret' = Call("enter", Some(location), None, ResUnit, None)
         /\ UNCHANGED <<file_cache, mem_cache, written>>

WithCycleDetectionEnter_SnapshotAfterPush(location) ==
    IF Contains(stack, location)
    THEN /\ ret' = Call("wcd_cycle", Some(location), None,
                        ImportCycle(Push(stack, location), location), None)
         /\ UNCHANGED <<file_cache, mem_cache, stack, frames, written>>
    ELSE /\ stack' = Push(stack, location)
         /\ frames' = Push(frames, Frame(location))
         /\ ret' = Call("enter", Some(location), None, ResUnit, None)
         /\ UNCHANGED <<file_cache, mem_cache, written>>

WithCycleDetectionEnter(location) ==
    IF Contains(stack, location)
    THEN /\ ret' = Call("wcd_cycle", Some(location), None,
                        ImportCycle(stack, location), None)
         /\ UNCHANGED <<file_cache, mem_cache, stack, frames, written>>
    ELSE /\ stack' = Push(stack, location)
         /\ frames' = Push(frames, Frame(location))
         /\ ret' = Call("enter", Some(location), None, ResUnit, None)
         /\ UNCHANGED <<file_cache, mem_cache, written>>

\* A do_resolve that leaves through `?`: the pop is skipped on Err.
WithCycleDetectionReturn_PropagateErr(result) ==
    /\ frames # <<>>
    /\ stack' = IF result.tag = "Ok" THEN Pop(stack) ELSE stack
    /\ frames' = Pop(frames)
    /\ ret' = [Call("wcd", Some(frames[Len(frames)].loc), None, result, None)
                 EXCEPT !.pre_stack = frames[Len(frames)].entry,
                        !.pre_depth = Len(frames) - 1]
    /\ UNCHANGED <<file_cache, mem_cache, written>>

WithCycleDetectionReturn(result) ==
    /\ frames # <<>>
    /\ stack' = Pop(stack)
    /\ frames' = Pop(frames)
    /\ ret' = [Call("wcd", Some(frames[Len(frames)].loc), None, result, None)
                 EXCEPT !.pre_stack = frames[Len(frames)].entry,
                        !.pre_depth = Len(frames) - 1]
    /\ UNCHANGED <<file_cache, mem_cache, written>>

\* What do_resolve may return: a Typed, an error of its own, or the
\* ImportCycle error a nested call has just handed it.
ResolveResults ==
    {ResOk(t) : t \in Typeds} \cup {ResErrOther}
        \cup (IF ret.op = "wcd_cycle" THEN {ret.result} ELSE {})

ImportInit ==
    /\ ImportEnvNew
    /\ frames = <<>>
    /\ written = [l \in Locations |-> None]
    /\ ret = Call("new", None, None, ResUnit, None)

(***************************************************************************)
(* NameEnv                                                                 *)
(***************************************************************************)
V(name, idx) == [name |-> name, idx |-> idx]

NameCall(op, v, a, out_v, out_a) ==
    [op |-> op, v |-> v, a |-> a, out_v |-> out_v, out_a |-> out_a]

\* names.iter().rev().enumerate() yields (i, ns[Len(ns) - i]) for i = 0, 1, ...
RevAt(ns, i) == ns[Len(ns) - i]

\* Without .rev(): counts from the outermost frame.
unlabel_var_NoRev(ns, var) ==
    LET matches == {i \in 0..(Len(ns) - 1) : ns[i + 1] = var.name}
        nth == {i \in matches :
                    Cardinality({j \in matches : j < i}) = var.idx}
    IN  IF nth = {} THEN None ELSE Some(CHOOSE i \in nth : TRUE)

unlabel_var(ns, var) ==
    LET matches == {i \in 0..(Len(ns) - 1) : RevAt(ns, i) = var.name}
        nth == {i \in matches :
                    Cardinality({j \in matches : j < i}) = var.idx}
    IN  IF nth = {} THEN None ELSE Some(CHOOSE i \in nth : TRUE)

\* With take(var.idx() + 1): the frame of the variable itself is counted.
label_var_Inclusive(ns, var_idx) ==
    LET name == ns[Len(ns) - var_idx]
        idx == Cardinality({i \in 0..var_idx : RevAt(ns, i) = name})
    IN  V(name, idx)

\* Defined for var_idx < Len(ns); the code panics on the index otherwise.
label_var(ns, var_idx) ==
    LET name == ns[Len(ns) - var_idx]
        idx == Cardinality({i \in 0..(var_idx - 1) : RevAt(ns, i) = name})
    IN  V(name, idx)

InsertMut(x) ==
    /\ Len(names) < MaxNames
    /\ names' = Push(names, x)
    /\ nret' = NameCall("insert_mut", Some(V(x, 0)), None, None, None)

RemoveMut ==
    /\ names' = IF names = <<>> THEN names ELSE Pop(names)
    /\ nret' = NameCall("remove_mut", None, None, None, None)

UnlabelVar(var) ==
    /\ nret' = NameCall("unlabel_var", Some(var), None, None,
                        unlabel_var(names, var))
    /\ UNCHANGED names

LabelVar(var_idx) ==
    /\ var_idx < Len(names)
    /\ nret' = NameCall("label_var", None, Some(var_idx),
                        Some(label_var(names, var_idx)), None)
    /\ UNCHANGED names

NamesInit ==
    /\ names = <<>>
    /\ nret = NameCall("new", None, None, None, None)

(***************************************************************************)
(* Typechecker: data.                                                      *)
(*                                                                         *)
(* Expr    - a resolved expression; a record with a tag and the fields of  *)
(*           its ExprKind variant.  Maps that may hold duplicate keys      *)
(*           (RecordLit, RecordType, UnionType) are key-sorted sequences.  *)
(* TyExpr  - the same shape over TyExprs, with ty : Option<Value>; a       *)
(*           resolved variable is [tag |-> "AVar", idx |-> de Bruijn idx]. *)
(* Value   - a record with vk (its ValueKind) and ty : Option<Value>.      *)
(*           HashMaps are functions from labels.                           *)
(* The normalizer and the Value, Closure and TyEnv types are collaborators *)
(* of typecheck.rs; they are modelled after their interface.               *)
(***************************************************************************)
Ok(x) == [ok |-> TRUE, rv |-> <<x>>, err |-> ""]
Err(msg) == [ok |-> FALSE, rv |-> <<>>, err |-> msg]
Val(r) == r.rv[1]
\* The ? operator: the value of an Ok is handed to F, an Err is returned.
AndThen(r, F(_)) == IF r.ok THEN F(Val(r)) ELSE r
\* Result::or_else with a constant
OrElse(r, other) == IF r.ok THEN r ELSE other

\* Labels in the order of their keys in a sorted map (byte order).
LabelOrder == <<"A", "B", "None", "Some", "_", "a", "b", "x", "y">>
SortedKeys(S) == SelectSeq(LabelOrder, LAMBDA l : l \in S)

\* The keys of a HashMap in the order ord iterates them: ord is a permutation
\* of 1..MaxMapKeys applied to the positions of the sorted keys.
IterKeys(S, ord) ==
    LET ks == SortedKeys(S)
        first == SelectSeq(ord, LAMBDA i : i <= Len(ks))
    IN  [j \in 1..Len(ks) |-> IF j <= Len(first) THEN ks[first[j]] ELSE ks[j]]

RECURSIVE SeqOfMap(_, _)
\* <<[k, e]>> pairs of a map m over the keys ks (a sequence), in that order.
SeqOfMap(m, ks) ==
    IF ks = <<>> THEN <<>>
    ELSE <<[k |-> Head(ks), e |-> m[Head(ks)]]>> \o SeqOfMap(m, Tail(ks))

Keys(kvs) == {kvs[i].k : i \in 1..Len(kvs)}
UEntryOf(ukts, l) == ukts[CHOOSE i \in 1..Len(ukts) : ukts[i].k = l].ot
HasDuplicateKey(kvs) == \E i, j \in 1..Len(kvs) : i < j /\ kvs[i].k = kvs[j].k
\* The entry of key l in a sequence of pairs without duplicate keys.
EntryOf(kvs, l) == kvs[CHOOSE i \in 1..Len(kvs) : kvs[i].k = l].e
MapOfSeq(kvs) == [l \in Keys(kvs) |-> EntryOf(kvs, l)]

(***************************************************************************)
(* Const and its order Type < Kind < Sort                                  *)
(***************************************************************************)
ConstRank(c) == CASE c = "Type" -> 0 [] c = "Kind" -> 1 [] c = "Sort" -> 2
ConstMax(a, b) == IF ConstRank(a) >= ConstRank(b) THEN a ELSE b

(***************************************************************************)
(* Value constructors                                                      *)
(***************************************************************************)
VSort == [vk |-> "Const", c |-> "Sort", ty |-> None]
VKind == [vk |-> "Const", c |-> "Kind", ty |-> Some(VSort)]
VType == [vk |-> "Const", c |-> "Type", ty |-> Some(VKind)]

\* Value::from_const
from_const(c) == CASE c = "Type" -> VType [] c = "Kind" -> VKind [] c = "Sort" -> VSort

\* Value::as_const
as_const(v) == IF v.vk = "Const" THEN Some(v.c) ELSE None

\* Value::get_type and TyExpr::get_type: an error for Sort.
get_type(x) == IF IsSome(x.ty) THEN Ok(Unwrap(x.ty)) ELSE Err("Sort has no type")

\* Value::from_kind_and_type
from_kind_and_type(kind, ty) == [f \in DOMAIN kind \cup {"ty"} |->
                                    IF f = "ty" THEN Some(ty) ELSE kind[f]]

\* Closure::new: applied, it evaluates body with the argument as innermost frame
Closure(env, body) == [ctag |-> "Closure", env |-> env, body |-> body]
\* Closure::new_constant: applied, it evaluates body in env as it is
ConstantClosure(env, body) == [ctag |-> "Constant", env |-> env, body |-> body]

Kept(ty) == [it |-> "Kept", v |-> ty]
Replaced(val) == [it |-> "Replaced", v |-> val]

\* Optional : Type -> Type as a TyExpr and as a Value.
TyConstType == [tag |-> "Const", c |-> "Type", ty |-> Some(VKind)]
OptionalTypeValue ==
    [vk |-> "PiClosure", binder |-> "_", annot |-> VType,
     closure |-> Closure(<<>>, TyConstType), ty |-> Some(VKind)]

\* type_of_builtin, as an expression
type_of_builtin(b) ==
    IF b = "Optional"
    THEN [tag |-> "Pi", binder |-> "_", annot |-> [tag |-> "Const", c |-> "Type"],
          body |-> [tag |-> "Const", c |-> "Type"]]
    ELSE [tag |-> "Const", c |-> "Type"]

\* Value::from_builtin
from_builtin(b) ==
    [vk |-> "AppliedBuiltin", b |-> b, args |-> <<>>,
     ty |-> Some(IF b = "Optional" THEN OptionalTypeValue ELSE VType)]

\* Value::app of a builtin type constructor to its argument: Optional t
builtin_app(b, t) ==
    [vk |-> "AppliedBuiltin", b |-> b, args |-> <<t>>, ty |-> Some(VType)]

NzVar(lvl, ty) == [vk |-> "Var", lvl |-> lvl, ty |-> Some(ty)]
\* NzVar::fresh: a variable no environment holds
FreshVar(k) == [vk |-> "Var", lvl |-> 0 - (k + 1), ty |-> None]

PartialExpr(ptag, pargs, plabels, ty) ==
    [vk |-> "PartialExpr", ptag |-> ptag, pargs |-> pargs,
     plabels |-> plabels, ty |-> ty]

\* NzEnv::lookup_val
lookup_val(items, idx) ==
    LET pos == Len(items) - idx IN
    IF items[pos].it = "Kept" THEN NzVar(pos - 1, items[pos].v)
    ELSE items[pos].v

(***************************************************************************)
(* Normalization                                                           *)
(***************************************************************************)
RECURSIVE Eval(_, _)
RECURSIVE ClosureApply(_, _)
RECURSIVE EvalSeq(_, _)

ClosureApply(cl, v) ==
    IF cl.ctag = "Constant" THEN Eval(cl.env, cl.body)
    ELSE Eval(Append(cl.env, Replaced(v)), cl.body)

apply_any(f, a, ty) ==
    CASE f.vk = "LamClosure" -> ClosureApply(f.closure, a)
      [] f.vk = "AppliedBuiltin" /\ f.b = "Optional" /\ f.args = <<>> ->
            [vk |-> "AppliedBuiltin", b |-> f.b, args |-> <<a>>, ty |-> ty]
      [] f.vk = "UnionConstructor" ->
            [vk |-> "UnionLit", label |-> f.label, x |-> a,
             vukts |-> f.vukts, ty |-> ty]
      [] OTHER -> PartialExpr("App", <<f, a>>, <<>>, ty)

\* merge with an applied handler: the handler of the variant, applied to the
\* payload when the variant carries one.
apply_merge(rec, u, ty) ==
    CASE rec.vk = "RecordLit" /\ u.vk = "UnionConstructor"
            /\ IsSome(u.vukts[u.label]) = FALSE /\ u.label \in DOMAIN rec.vkvs ->
            rec.vkvs[u.label]
      [] rec.vk = "RecordLit" /\ u.vk = "UnionLit" /\ u.label \in DOMAIN rec.vkvs ->
            apply_any(rec.vkvs[u.label], u.x, ty)
      [] rec.vk = "RecordLit" /\ u.vk = "NEOptionalLit" /\ "Some" \in DOMAIN rec.vkvs ->
            apply_any(rec.vkvs["Some"], u.x, ty)
      [] OTHER -> PartialExpr("Merge", <<rec, u>>, <<>>, ty)

EvalSeq(items, kvs) ==
    IF kvs = <<>> THEN <<>>
    ELSE <<[k |-> Head(kvs).k, e |-> Eval(items, Head(kvs).e)]>>
            \o EvalSeq(items, Tail(kvs))

\* normalize_whnf / normalize_nf of a TyExpr in an NzEnv
Eval(items, te) ==
    CASE te.tag = "AVar" -> lookup_val(items, te.idx)
      [] te.tag = "Const" -> from_const(te.c)
      [] te.tag = "Builtin" ->
            [vk |-> "AppliedBuiltin", b |-> te.b, args |-> <<>>, ty |-> te.ty]
      [] te.tag = "BoolLit" -> [vk |-> "BoolLit", bool |-> te.bool, ty |-> te.ty]
      [] te.tag = "NaturalLit" -> [vk |-> "NaturalLit", n |-> te.n, ty |-> te.ty]
      [] te.tag = "Lam" ->
            [vk |-> "LamClosure", binder |-> te.binder,
             annot |-> Eval(items, te.annot),
             closure |-> Closure(items, te.body), ty |-> te.ty]
      [] te.tag = "Pi" ->
            [vk |-> "PiClosure", binder |-> te.binder,
             annot |-> Eval(items, te.annot),
             closure |-> Closure(items, te.body), ty |-> te.ty]
      [] te.tag = "Let" ->
            Eval(Append(items, Replaced(Eval(items, te.val))), te.body)
      [] te.tag = "App" -> apply_any(Eval(items, te.f), Eval(items, te.arg), te.ty)
      [] te.tag = "Annot" -> Eval(items, te.x)
      [] te.tag = "SomeLit" ->
            [vk |-> "NEOptionalLit", x |-> Eval(items, te.x), ty |-> te.ty]
      [] te.tag = "RecordLit" ->
            [vk |-> "RecordLit", vkvs |-> MapOfSeq(EvalSeq(items, te.kvs)),
             ty |-> te.ty]
      [] te.tag = "RecordType" ->
            [vk |-> "RecordType", vkts |-> MapOfSeq(EvalSeq(items, te.kts)),
             ty |-> te.ty]
      [] te.tag = "UnionType" ->
            [vk |-> "UnionType",
             vukts |-> [l \in Keys(te.ukts) |->
                          LET ot == UEntryOf(te.ukts, l) IN
                          IF IsSome(ot) THEN Some(Eval(items, Unwrap(ot))) ELSE None],
             ty |-> te.ty]
      [] te.tag = "Field" ->
            LET s == Eval(items, te.scrut) IN
            CASE s.vk = "RecordLit" /\ te.label \in DOMAIN s.vkvs -> s.vkvs[te.label]
              [] s.vk = "UnionType" /\ te.label \in DOMAIN s.vukts ->
                    [vk |-> "UnionConstructor", label |-> te.label,
                     vukts |-> s.vukts, ty |-> te.ty]
              [] OTHER -> PartialExpr("Field", <<s>>, <<te.label>>, te.ty)
      [] te.tag = "Projection" ->
            LET r == Eval(items, te.record)
                ls == {te.labels[i] : i \in 1..Len(te.labels)} IN
            IF r.vk = "RecordLit" /\ ls \subseteq DOMAIN r.vkvs
            THEN [vk |-> "RecordLit", vkvs |-> [l \in ls |-> r.vkvs[l]], ty |-> te.ty]
            ELSE PartialExpr("Projection", <<r>>, te.labels, te.ty)
      [] te.tag = "BinOp" ->
            LET l == Eval(items, te.l)
                r == Eval(items, te.r) IN
            IF te.op = "RightBiasedRecordMerge" /\ l.vk = "RecordLit"
                    /\ r.vk = "RecordLit"
            THEN [vk |-> "RecordLit",
                  vkvs |-> [k \in DOMAIN l.vkvs \cup DOMAIN r.vkvs |->
                              IF k \in DOMAIN r.vkvs THEN r.vkvs[k] ELSE l.vkvs[k]],
                  ty |-> te.ty]
            ELSE PartialExpr(te.op, <<l, r>>, <<>>, te.ty)
      [] te.tag = "BoolIf" ->
            LET c == Eval(items, te.if_c) IN
            IF c.vk = "BoolLit"
            THEN (IF c.bool THEN Eval(items, te.if_y) ELSE Eval(items, te.if_z))
            ELSE PartialExpr("BoolIf",
                    <<c, Eval(items, te.if_y), Eval(items, te.if_z)>>, <<>>, te.ty)
      [] te.tag = "Merge" ->
            apply_merge(Eval(items, te.record), Eval(items, te.union), te.ty)

(***************************************************************************)
(* Equality of Values compares their kinds and ignores the recorded types  *)
(* and the binders' names; closures are compared applied to a fresh        *)
(* variable.  Erase(v, k) is the kind of v with all of that removed, so    *)
(* that two Values are equal exactly when their erasures are.              *)
(***************************************************************************)
RECURSIVE Erase(_, _)
RECURSIVE EraseAll(_, _)

EraseAll(vs, k) ==
    IF vs = <<>> THEN <<>> ELSE <<Erase(Head(vs), k)>> \o EraseAll(Tail(vs), k)

Erase(v, k) ==
    CASE v.vk = "Const" -> [vk |-> v.vk, c |-> v.c]
      [] v.vk = "AppliedBuiltin" -> [vk |-> v.vk, b |-> v.b, args |-> EraseAll(v.args, k)]
      [] v.vk = "Var" -> [vk |-> v.vk, lvl |-> v.lvl]
      [] v.vk = "BoolLit" -> [vk |-> v.vk, bool |-> v.bool]
      [] v.vk = "NaturalLit" -> [vk |-> v.vk, n |-> v.n]
      [] v.vk \in {"LamClosure", "PiClosure"} ->
            [vk |-> v.vk, annot |-> Erase(v.annot, k),
             body |-> Erase(ClosureApply(v.closure, FreshVar(k)), k + 1)]
      [] v.vk = "NEOptionalLit" -> [vk |-> v.vk, x |-> Erase(v.x, k)]
      [] v.vk = "RecordLit" ->
            [vk |-> v.vk, vkvs |-> [l \in DOMAIN v.vkvs |-> Erase(v.vkvs[l], k)]]
      [] v.vk = "RecordType" ->
            [vk |-> v.vk, vkts |-> [l \in DOMAIN v.vkts |-> Erase(v.vkts[l], k)]]
      [] v.vk = "UnionType" ->
            [vk |-> v.vk,
             vukts |-> [l \in DOMAIN v.vukts |->
                          IF IsSome(v.vukts[l])
                          THEN Some(Erase(Unwrap(v.vukts[l]), k)) ELSE None]]
      [] v.vk = "UnionConstructor" ->
            [vk |-> v.vk, label |-> v.label,
             vukts |-> [l \in DOMAIN v.vukts |->
                          IF IsSome(v.vukts[l])
                          THEN Some(Erase(Unwrap(v.vukts[l]), k)) ELSE None]]
      [] v.vk = "UnionLit" ->
            [vk |-> v.vk, label |-> v.label, x |-> Erase(v.x, k),
             vukts |-> [l \in DOMAIN v.vukts |->
                          IF IsSome(v.vukts[l])
                          THEN Some(Erase(Unwrap(v.vukts[l]), k)) ELSE None]]
      [] v.vk = "PartialExpr" ->
            [vk |-> v.vk, ptag |-> v.ptag, pargs |-> EraseAll(v.pargs, k),
             plabels |-> v.plabels]

\* Value == Value
ValueEq(a, b) == Erase(a, 0) = Erase(b, 0)

\* Closure::remove_binder: the body, when it does not depend on the binder.
remove_binder(cl) ==
    IF cl.ctag = "Constant" THEN Ok(Eval(cl.env, cl.body))
    ELSE IF Erase(ClosureApply(cl, FreshVar(0)), 2)
                = Erase(ClosureApply(cl, FreshVar(1)), 2)
    THEN Ok(ClosureApply(cl, FreshVar(0)))
    ELSE Err("dependent")

(***************************************************************************)
(* Value::to_tyexpr(venv): a Value as a TyExpr in an environment of size n *)
(***************************************************************************)
RECURSIVE Quote(_, _)
RECURSIVE QuoteMap(_, _, _)
RECURSIVE QuoteUnion(_, _, _)
RECURSIVE QuoteAll(_, _)

QuoteMap(m, ks, n) ==
    IF ks = <<>> THEN <<>>
    ELSE <<[k |-> Head(ks), e |-> Quote(m[Head(ks)], n)]>> \o QuoteMap(m, Tail(ks), n)

QuoteUnion(m, ks, n) ==
    IF ks = <<>> THEN <<>>
    ELSE <<[k |-> Head(ks),
            ot |-> IF IsSome(m[Head(ks)])
                   THEN Some(Quote(Unwrap(m[Head(ks)]), n)) ELSE None]>>
            \o QuoteUnion(m, Tail(ks), n)

QuoteAll(vs, n) ==
    IF vs = <<>> THEN <<>> ELSE <<Quote(Head(vs), n)>> \o QuoteAll(Tail(vs), n)

\* The universe of a union type: that of its alternatives' types, else Type.
UnionUniverse(vukts) ==
    LET typed == {l \in DOMAIN vukts : IsSome(vukts[l])} IN
    IF typed = {} THEN Some(VType)
    ELSE Unwrap(vukts[CHOOSE l \in typed : TRUE]).ty

QuoteUnionType(vukts, ty, n) ==
    [tag |-> "UnionType",
     ukts |-> QuoteUnion(vukts, SortedKeys(DOMAIN vukts), n), ty |-> ty]

Quote(v, n) ==
    CASE v.vk = "Const" -> [tag |-> "Const", c |-> v.c, ty |-> v.ty]
      [] v.vk = "AppliedBuiltin" ->
            IF v.args = <<>> THEN [tag |-> "Builtin", b |-> v.b, ty |-> v.ty]
            ELSE [tag |-> "App",
                  f |-> [tag |-> "Builtin", b |-> v.b, ty |-> from_builtin(v.b).ty],
                  arg |-> Quote(v.args[1], n), ty |-> v.ty]
      [] v.vk = "Var" -> [tag |-> "AVar", idx |-> n - 1 - v.lvl, ty |-> v.ty]
      [] v.vk = "BoolLit" -> [tag |-> "BoolLit", bool |-> v.bool, ty |-> v.ty]
      [] v.vk = "NaturalLit" -> [tag |-> "NaturalLit", n |-> v.n, ty |-> v.ty]
      [] v.vk = "LamClosure" ->
            [tag |-> "Lam", binder |-> v.binder, annot |-> Quote(v.annot, n),
             body |-> Quote(ClosureApply(v.closure, NzVar(n, v.annot)), n + 1),
             ty |-> v.ty]
      [] v.vk = "PiClosure" ->
            [tag |-> "Pi", binder |-> v.binder, annot |-> Quote(v.annot, n),
             body |-> Quote(ClosureApply(v.closure, NzVar(n, v.annot)), n + 1),
             ty |-> v.ty]
      [] v.vk = "NEOptionalLit" ->
            [tag |-> "SomeLit", x |-> Quote(v.x, n), ty |-> v.ty]
      [] v.vk = "RecordLit" ->
            [tag |-> "RecordLit",
             kvs |-> QuoteMap(v.vkvs, SortedKeys(DOMAIN v.vkvs), n), ty |-> v.ty]
      [] v.vk = "RecordType" ->
            [tag |-> "RecordType",
             kts |-> QuoteMap(v.vkts, SortedKeys(DOMAIN v.vkts), n), ty |-> v.ty]
      [] v.vk = "UnionType" -> QuoteUnionType(v.vukts, v.ty, n)
      [] v.vk = "UnionConstructor" ->
            [tag |-> "Field",
             scrut |-> QuoteUnionType(v.vukts, UnionUniverse(v.vukts), n),
             label |-> v.label, ty |-> v.ty]
      [] v.vk = "UnionLit" ->
            [tag |-> "App",
             f |-> [tag |-> "Field",
                    scrut |-> QuoteUnionType(v.vukts, UnionUniverse(v.vukts), n),
                    label |-> v.label, ty |-> None],
             arg |-> Quote(v.x, n), ty |-> v.ty]
      [] v.vk = "PartialExpr" ->
            LET a == QuoteAll(v.pargs, n) IN
            CASE v.ptag = "App" -> [tag |-> "App", f |-> a[1], arg |-> a[2], ty |-> v.ty]
              [] v.ptag = "Field" ->
                    [tag |-> "Field", scrut |-> a[1], label |-> v.plabels[1], ty |-> v.ty]
              [] v.ptag = "Projection" ->
                    [tag |-> "Projection", record |-> a[1], labels |-> v.plabels,
                     ty |-> v.ty]
              [] v.ptag = "BoolIf" ->
                    [tag |-> "BoolIf", if_c |-> a[1], if_y |-> a[2], if_z |-> a[3],
                     ty |-> v.ty]
              [] v.ptag = "Merge" ->
                    [tag |-> "Merge", record |-> a[1], union |-> a[2],
                     oannot |-> None, ty |-> v.ty]
              [] OTHER ->
                    [tag |-> "BinOp", op |-> v.ptag, l |-> a[1], r |-> a[2], ty |-> v.ty]

(***************************************************************************)
(* TyExpr::to_expr_tyenv: a TyExpr as an expression, its variables named   *)
(* through label_var in the names of the enclosing binders.                *)
(***************************************************************************)
RECURSIVE ToExpr(_, _)
RECURSIVE ToExprMap(_, _)
RECURSIVE ToExprUnion(_, _)

ToExprMap(kvs, ns) ==
    IF kvs = <<>> THEN <<>>
    ELSE <<[k |-> Head(kvs).k, e |-> ToExpr(Head(kvs).e, ns)]>>
            \o ToExprMap(Tail(kvs), ns)

ToExprUnion(ukts, ns) ==
    IF ukts = <<>> THEN <<>>
    ELSE <<[k |-> Head(ukts).k,
            ot |-> IF IsSome(Head(ukts).ot)
                   THEN Some(ToExpr(Unwrap(Head(ukts).ot), ns)) ELSE None]>>
            \o ToExprUnion(Tail(ukts), ns)

ToExpr(te, ns) ==
    CASE te.tag = "AVar" -> [tag |-> "Var", var |-> label_var(ns, te.idx)]
      [] te.tag = "Const" -> [tag |-> "Const", c |-> te.c]
      [] te.tag = "Builtin" -> [tag |-> "Builtin", b |-> te.b]
      [] te.tag = "BoolLit" -> [tag |-> "BoolLit", bool |-> te.bool]
      [] te.tag = "NaturalLit" -> [tag |-> "NaturalLit", n |-> te.n]
      [] te.tag \in {"Lam", "Pi"} ->
            [tag |-> te.tag, binder |-> te.binder, annot |-> ToExpr(te.annot, ns),
             body |-> ToExpr(te.body, Append(ns, te.binder))]
      [] te.tag = "Let" ->
            [tag |-> "Let", binder |-> te.binder, oannot |-> None,
             val |-> ToExpr(te.val, ns),
             body |-> ToExpr(te.body, Append(ns, te.binder))]
      [] te.tag = "App" ->
            [tag |-> "App", f |-> ToExpr(te.f, ns), arg |-> ToExpr(te.arg, ns)]
      [] te.tag = "Annot" ->
            [tag |-> "Annot", x |-> ToExpr(te.x, ns), t |-> ToExpr(te.t, ns)]
      [] te.tag = "SomeLit" -> [tag |-> "SomeLit", x |-> ToExpr(te.x, ns)]
      [] te.tag = "RecordLit" -> [tag |-> "RecordLit", kvs |-> ToExprMap(te.kvs, ns)]
      [] te.tag = "RecordType" -> [tag |-> "RecordType", kts |-> ToExprMap(te.kts, ns)]
      [] te.tag = "UnionType" -> [tag |-> "UnionType", ukts |-> ToExprUnion(te.ukts, ns)]
      [] te.tag = "Field" ->
            [tag |-> "Field", scrut |-> ToExpr(te.scrut, ns), label |-> te.label]
      [] te.tag = "Projection" ->
            [tag |-> "Projection", record |-> ToExpr(te.record, ns),
             labels |-> te.labels]
      [] te.tag = "BinOp" ->
            [tag |-> "BinOp", op |-> te.op, l |-> ToExpr(te.l, ns), r |-> ToExpr(te.r, ns)]
      [] te.tag = "BoolIf" ->
            [tag |-> "BoolIf", if_c |-> ToExpr(te.if_c, ns),
             if_y |-> ToExpr(te.if_y, ns), if_z |-> ToExpr(te.if_z, ns)]
      [] te.tag = "Merge" ->
            [tag |-> "Merge", record |-> ToExpr(te.record, ns),
             union |-> ToExpr(te.union, ns),
             oannot |-> IF IsSome(te.oannot)
                        THEN Some(ToExpr(Unwrap(te.oannot), ns)) ELSE None]

(***************************************************************************)
(* TyEnv: the names of the binders in scope and, per binder, its type      *)
(* (insert_type) or its value (insert_value).                              *)
(***************************************************************************)
TyEnvNew == [names |-> <<>>, items |-> <<>>]
insert_type(env, x, t) ==
    [names |-> Push(env.names, x), items |-> Append(env.items, Kept(t))]
insert_value(env, x, e) ==
    [names |-> Push(env.names, x), items |-> Append(env.items, Replaced(e))]
as_nzenv(env) == env.items
\* NameEnv::as_varenv: VarEnv::from_size
as_varenv(env) == Len(env.names)

\* TyEnv::lookup: the variable and the type of its frame.  A frame whose
\* value has no type (a let-bound Sort) gives no type to hand out: the
\* lookup does not return, which is reported as an error here.
lookup_frame(env, a) ==
    IF a = None THEN Err("unbound variable")
    ELSE IF lookup_val(env.items, Unwrap(a)).ty = None THEN Err("Sort has no type")
    ELSE Ok([tag |-> "AVar", idx |-> Unwrap(a),
             ty |-> lookup_val(env.items, Unwrap(a)).ty])

lookup(env, var) == lookup_frame(env, unlabel_var(env.names, var))

(***************************************************************************)
(* typecheck.rs                                                            *)
(***************************************************************************)
RECURSIVE type_with(_, _, _)
RECURSIVE type_one_layer(_, _, _)
RECURSIVE TypeAll(_, _, _)
RECURSIVE type_of_recordtype_from(_, _)

mkerr(x) == Err(x)

\* The loop of type_of_recordtype over tys, k being the maximum so far.
type_of_recordtype_from(tys, k) ==
    IF tys = <<>> THEN Ok(from_const(k))
    ELSE AndThen(get_type(Head(tys)), LAMBDA t :
         IF IsSome(as_const(t))
         THEN type_of_recordtype_from(Tail(tys), ConstMax(k, Unwrap(as_const(t))))
         ELSE mkerr("InvalidFieldType"))

type_of_recordtype(tys) == type_of_recordtype_from(tys, "Type")

\* Without the rule for a codomain in Type.
function_check_Max(a, b) == ConstMax(a, b)

function_check(a, b) == IF b = "Type" THEN "Type" ELSE ConstMax(a, b)

type_of_function(src, tgt) ==
    IF as_const(src) = None THEN Err("InvalidInputType")
    ELSE IF as_const(tgt) = None THEN Err("InvalidOutputType")
    ELSE Ok(from_const(function_check(Unwrap(as_const(src)), Unwrap(as_const(tgt)))))

\* es typed one after the other in env; the first error ends it.
TypeAll(env, es, ord) ==
    IF es = <<>> THEN Ok(<<>>)
    ELSE AndThen(type_with(env, Head(es), ord), LAMBDA h :
         AndThen(TypeAll(env, Tail(es), ord), LAMBDA t : Ok(<<h>> \o t)))

\* The keys ks of the map m as TyExprs, in that order.
TyExprsOf(env, m, ks) == [i \in 1..Len(ks) |-> Quote(m[ks[i]], as_varenv(env))]

\* The Values of a map m in the order ord iterates its keys, as TyExprs.
IterTyExprs(env, m, ord) == TyExprsOf(env, m, IterKeys(DOMAIN m, ord))

\* The RecordType value of the entries kts, of type ty.
RecordTypeValue(kts, ty) ==
    from_kind_and_type([vk |-> "RecordType", vkts |-> kts], ty)

(* ExprKind::SomeLit *)
tol_SomeLit(env, k, ord) ==
    AndThen(get_type(k.x), LAMBDA t :
    AndThen(get_type(t), LAMBDA tt :
    IF as_const(tt) # Some("Type") THEN mkerr("InvalidOptionalType")
    ELSE Ok(builtin_app("Optional", t))))

\* The first problem of the entries kvs[i..] of a record literal: a key seen
\* before, or a value without a type.
RECURSIVE RecordLitScan(_, _)
RecordLitScan(kvs, i) ==
    IF i > Len(kvs) THEN Ok(<<>>)
    ELSE IF \E j \in 1..(i - 1) : kvs[j].k = kvs[i].k
    THEN mkerr("RecordTypeDuplicateField")
    ELSE AndThen(get_type(kvs[i].e), LAMBDA t : RecordLitScan(kvs, i + 1))

\* The map of the types of the entries of a record literal.
RecordLitTypes(kvs) == [l \in Keys(kvs) |-> Unwrap(EntryOf(kvs, l).ty)]

\* The record type of the entries kts, its universe by type_of_recordtype.
RecordTypeOf(env, kts, ord) ==
    AndThen(type_of_recordtype(IterTyExprs(env, kts, ord)), LAMBDA ty :
    Ok(RecordTypeValue(kts, ty)))

(* ExprKind::RecordLit *)
tol_RecordLit(env, k, ord) ==
    AndThen(RecordLitScan(k.kvs, 1), LAMBDA scanned :
    RecordTypeOf(env, RecordLitTypes(k.kvs), ord))

(* ExprKind::RecordType *)
tol_RecordType(env, k, ord) ==
    IF HasDuplicateKey(k.kts) THEN mkerr("RecordTypeDuplicateField")
    ELSE type_of_recordtype([i \in 1..Len(k.kts) |-> k.kts[i].e])

\* The loop of the UnionType arm from entry i on, c being the universe found
\* so far (None: none yet).
RECURSIVE UnionTypeScan(_, _, _)
UnionTypeScan(ukts, i, c) ==
    IF i > Len(ukts) THEN Ok(from_const(IF IsSome(c) THEN Unwrap(c) ELSE "Type"))
    ELSE IF ukts[i].ot = None
    THEN (IF \E j \in 1..(i - 1) : ukts[j].k = ukts[i].k
          THEN mkerr("UnionTypeDuplicateField")
          ELSE UnionTypeScan(ukts, i + 1, c))
    ELSE AndThen(get_type(Unwrap(ukts[i].ot)), LAMBDA t :
         IF as_const(t) = None \/ (IsSome(c) /\ c # as_const(t))
         THEN mkerr("InvalidFieldType")
         ELSE IF \E j \in 1..(i - 1) : ukts[j].k = ukts[i].k
         THEN mkerr("UnionTypeDuplicateField")
         ELSE UnionTypeScan(ukts, i + 1, as_const(t)))

(* ExprKind::UnionType *)
tol_UnionType(env, k, ord) == UnionTypeScan(k.ukts, 1, None)

\* The type of the constructor x of the union type scrut_nf, the type of
\* which is scrut_type.
tol_Field_Union(env, k, scrut_type, scrut_nf) ==
    IF scrut_nf.vk # "UnionType" THEN mkerr("NotARecord")
    ELSE IF k.label \notin DOMAIN scrut_nf.vukts THEN mkerr("MissingUnionField")
    ELSE IF scrut_nf.vukts[k.label] = None THEN Ok(scrut_nf)
    ELSE AndThen(get_type(Unwrap(scrut_nf.vukts[k.label])), LAMBDA tyty :
         AndThen(type_of_function(tyty, scrut_type), LAMBDA fty :
         Ok(from_kind_and_type(
                [vk |-> "PiClosure", binder |-> k.label,
                 annot |-> Unwrap(scrut_nf.vukts[k.label]),
                 closure |-> ConstantClosure(as_nzenv(env), k.scrut)],
                fty))))

(* ExprKind::Field *)
tol_Field(env, k, ord) ==
    AndThen(get_type(k.scrut), LAMBDA st :
    IF st.vk = "RecordType"
    THEN (IF k.label \in DOMAIN st.vkts THEN Ok(st.vkts[k.label])
          ELSE mkerr("MissingRecordField"))
    ELSE tol_Field_Union(env, k, st, Eval(as_nzenv(env), k.scrut)))

(* ExprKind::Annot *)
tol_Annot(env, k, ord) ==
    AndThen(get_type(k.x), LAMBDA x_ty :
    IF ~ValueEq(x_ty, Eval(as_nzenv(env), k.t)) THEN mkerr("annot mismatch")
    ELSE Ok(x_ty))

(* ExprKind::App *)
tol_App(env, k, ord) ==
    AndThen(get_type(k.f), LAMBDA tf :
    IF tf.vk # "PiClosure" THEN mkerr("apply to not Pi")
    ELSE AndThen(get_type(k.arg), LAMBDA at :
         IF ~ValueEq(at, tf.annot) THEN mkerr("function annot mismatch")
         ELSE Ok(ClosureApply(tf.closure, Eval(as_nzenv(env), k.arg)))))

\* y.get_type()?.get_type()?.as_const(), as a result
UniverseOf(te) ==
    AndThen(get_type(te), LAMBDA t :
    AndThen(get_type(t), LAMBDA tt : Ok(as_const(tt))))

\* A branch of an if must be a term: its type is a Type.
BranchIsTerm(te) ==
    AndThen(UniverseOf(te), LAMBDA u :
    IF u # Some("Type") THEN mkerr("IfBranchMustBeTerm") ELSE Ok(u))

\* Without the check that the else branch is a term.
tol_BoolIf_ThenOnly(env, k, ord) ==
    AndThen(get_type(k.if_c), LAMBDA xt :
    IF ~ValueEq(xt, from_builtin("Bool")) THEN mkerr("InvalidPredicate")
    ELSE AndThen(BranchIsTerm(k.if_y), LAMBDA yu :
         AndThen(get_type(k.if_z), LAMBDA zt :
         IF ~ValueEq(Unwrap(k.if_y.ty), zt)
         THEN mkerr("IfBranchMismatch")
         ELSE get_type(k.if_y))))

(* ExprKind::BoolIf *)
tol_BoolIf(env, k, ord) ==
    AndThen(get_type(k.if_c), LAMBDA xt :
    IF ~ValueEq(xt, from_builtin("Bool")) THEN mkerr("InvalidPredicate")
    ELSE AndThen(BranchIsTerm(k.if_y), LAMBDA yu :
         AndThen(BranchIsTerm(k.if_z), LAMBDA zu :
         IF ~ValueEq(Unwrap(k.if_y.ty), Unwrap(k.if_z.ty))
         THEN mkerr("IfBranchMismatch")
         ELSE get_type(k.if_y))))

\* merge_maps(kts_x, kts_y), the right side winning
merge_maps(kts_x, kts_y) ==
    [l \in DOMAIN kts_x \cup DOMAIN kts_y |->
        IF l \in DOMAIN kts_y THEN kts_y[l] ELSE kts_x[l]]

(* ExprKind::BinOp(RightBiasedRecordMerge) *)
tol_RightBiasedRecordMerge(env, k, ord) ==
    AndThen(get_type(k.l), LAMBDA x_type :
    AndThen(get_type(k.r), LAMBDA y_type :
    IF x_type.vk # "RecordType" THEN mkerr("MustCombineRecord")
    ELSE IF y_type.vk # "RecordType" THEN mkerr("MustCombineRecord")
    ELSE RecordTypeOf(env, merge_maps(x_type.vkts, y_type.vkts), ord)))

\* The return type of the handler of type handler_type for variant x.
MergeHandlerReturnType(variants, x, handler_type) ==
    IF x \notin DOMAIN variants THEN mkerr("MergeHandlerMissingVariant")
    ELSE IF variants[x] = None THEN Ok(handler_type)
    ELSE IF handler_type.vk # "PiClosure" THEN mkerr("NotAFunction")
    ELSE IF ~ValueEq(Unwrap(variants[x]), handler_type.annot)
    THEN mkerr("MergeHandlerTypeMismatch")
    ELSE OrElse(remove_binder(handler_type.closure), mkerr("MergeReturnTypeIsDependent"))

\* inferred_type after the handler return type t.
MergeInfer(inferred_type, t) ==
    IF inferred_type = None THEN Ok(Some(t))
    ELSE IF ~ValueEq(Unwrap(inferred_type), t) THEN mkerr("MergeHandlerTypeMismatch")
    ELSE Ok(inferred_type)

\* The loop over the handlers of a merge, in the order ks of their keys:
\* the inferred type (None: no handler yet) or the first error.
RECURSIVE MergeHandlers(_, _, _, _)
MergeHandlers(handlers, variants, ks, inferred_type) ==
    IF ks = <<>> THEN Ok(inferred_type)
    ELSE AndThen(MergeHandlerReturnType(variants, Head(ks), handlers[Head(ks)]),
           LAMBDA handler_return_type :
         AndThen(MergeInfer(inferred_type, handler_return_type),
           LAMBDA inferred : MergeHandlers(handlers, variants, Tail(ks), inferred)))

\* The variants of the type of the merged value: a union type, or Optional
\* T taken as < None | Some : T >.
MergeVariants(u) ==
    IF u.vk = "UnionType" THEN Ok(u.vukts)
    ELSE IF u.vk = "AppliedBuiltin" /\ u.b = "Optional" /\ Len(u.args) = 1
    THEN Ok([l \in {"None", "Some"} |-> IF l = "None" THEN None ELSE Some(u.args[1])])
    ELSE mkerr("Merge2ArgMustBeUnionOrOptional")

\* The last match of the Merge arm.
MergeResult(inferred_type, type_annot) ==
    CASE IsSome(inferred_type) /\ IsSome(type_annot) ->
            IF ~ValueEq(Unwrap(inferred_type), Unwrap(type_annot))
            THEN mkerr("MergeAnnotMismatch")
            ELSE Ok(Unwrap(inferred_type))
      [] IsSome(inferred_type) /\ type_annot = None -> Ok(Unwrap(inferred_type))
      [] inferred_type = None /\ IsSome(type_annot) -> Ok(Unwrap(type_annot))
      [] OTHER -> mkerr("MergeEmptyNeedsAnnotation")

\* Without the loop over the variants.
tol_Merge_HandlersOnly(env, k, ord) ==
    AndThen(get_type(k.record), LAMBDA record_type :
    IF record_type.vk # "RecordType" THEN mkerr("Merge1ArgMustBeRecord")
    ELSE AndThen(get_type(k.union), LAMBDA union_type :
         AndThen(MergeVariants(union_type), LAMBDA variants :
         AndThen(MergeHandlers(record_type.vkts, variants,
                               IterKeys(DOMAIN record_type.vkts, ord), None),
           LAMBDA inferred_type :
         MergeResult(inferred_type,
                     IF IsSome(k.oannot)
                     THEN Some(Eval(as_nzenv(env), Unwrap(k.oannot)))
                     ELSE None)))))

(* ExprKind::Merge *)
tol_Merge(env, k, ord) ==
    AndThen(get_type(k.record), LAMBDA record_type :
    IF record_type.vk # "RecordType" THEN mkerr("Merge1ArgMustBeRecord")
    ELSE AndThen(get_type(k.union), LAMBDA union_type :
         AndThen(MergeVariants(union_type), LAMBDA variants :
         AndThen(MergeHandlers(record_type.vkts, variants,
                               IterKeys(DOMAIN record_type.vkts, ord), None),
           LAMBDA inferred_type :
         IF \E x \in DOMAIN variants : x \notin DOMAIN record_type.vkts
         THEN mkerr("MergeVariantMissingHandler")
         ELSE MergeResult(inferred_type,
                          IF IsSome(k.oannot)
                          THEN Some(Eval(as_nzenv(env), Unwrap(k.oannot)))
                          ELSE None)))))

\* The loop over the labels of a projection from label i on, new_kts being
\* the entries selected so far.
RECURSIVE ProjectionScan(_, _, _)
ProjectionScan(kts, labels, i) ==
    IF i > Len(labels) THEN Ok(<<>>)
    ELSE IF labels[i] \notin DOMAIN kts THEN mkerr("ProjectionMissingEntry")
    ELSE IF \E j \in 1..(i - 1) : labels[j] = labels[i]
    THEN mkerr("ProjectionDuplicateField")
    ELSE ProjectionScan(kts, labels, i + 1)

(* ExprKind::Projection *)
tol_Projection(env, k, ord) ==
    AndThen(get_type(k.record), LAMBDA record_type :
    IF record_type.vk # "RecordType" THEN mkerr("ProjectionMustBeRecord")
    ELSE AndThen(ProjectionScan(record_type.vkts, k.labels, 1), LAMBDA scanned :
         AndThen(get_type(record_type), LAMBDA ty :
         Ok(RecordTypeValue(
                [l \in {k.labels[i] : i \in 1..Len(k.labels)} |-> record_type.vkts[l]],
                ty)))))

(* ExprKind::Builtin *)
tol_Builtin(env, k, ord) ==
    AndThen(type_with(env, type_of_builtin(k.b), ord), LAMBDA t_tyexpr :
    Ok(Eval(as_nzenv(env), t_tyexpr)))

\* type_one_layer: the type of kind, whose sub-expressions are typed.
type_one_layer(env, k, ord) ==
    CASE k.tag = "Const" /\ k.c = "Type" -> Ok(from_const("Kind"))
      [] k.tag = "Const" /\ k.c = "Kind" -> Ok(from_const("Sort"))
      [] k.tag = "Builtin" -> tol_Builtin(env, k, ord)
      [] k.tag = "BoolLit" -> Ok(from_builtin("Bool"))
      [] k.tag = "NaturalLit" -> Ok(from_builtin("Natural"))
      [] k.tag = "SomeLit" -> tol_SomeLit(env, k, ord)
      [] k.tag = "RecordLit" -> tol_RecordLit(env, k, ord)
      [] k.tag = "RecordType" -> tol_RecordType(env, k, ord)
      [] k.tag = "UnionType" -> tol_UnionType(env, k, ord)
      [] k.tag = "Field" -> tol_Field(env, k, ord)
      [] k.tag = "Annot" -> tol_Annot(env, k, ord)
      [] k.tag = "App" -> tol_App(env, k, ord)
      [] k.tag = "BoolIf" -> tol_BoolIf(env, k, ord)
      [] k.tag = "BinOp" /\ k.op = "RightBiasedRecordMerge" ->
            tol_RightBiasedRecordMerge(env, k, ord)
      [] k.tag = "Merge" -> tol_Merge(env, k, ord)
      [] k.tag = "Projection" -> tol_Projection(env, k, ord)

\* The sub-expressions of an expression kind, in the order traverse_ref
\* visits them.
Children(e) ==
    CASE e.tag = "SomeLit" -> <<e.x>>
      [] e.tag = "RecordLit" -> [i \in 1..Len(e.kvs) |-> e.kvs[i].e]
      [] e.tag = "RecordType" -> [i \in 1..Len(e.kts) |-> e.kts[i].e]
      [] e.tag = "UnionType" ->
            LET typed == SelectSeq(e.ukts, LAMBDA p : IsSome(p.ot)) IN
            [i \in 1..Len(typed) |-> Unwrap(typed[i].ot)]
      [] e.tag = "Field" -> <<e.scrut>>
      [] e.tag = "Annot" -> <<e.x, e.t>>
      [] e.tag = "App" -> <<e.f, e.arg>>
      [] e.tag = "BoolIf" -> <<e.if_c, e.if_y, e.if_z>>
      [] e.tag = "BinOp" -> <<e.l, e.r>>
      [] e.tag = "Merge" ->
            <<e.record, e.union>> \o (IF IsSome(e.oannot) THEN e.oannot ELSE <<>>)
      [] e.tag = "Projection" -> <<e.record>>
      [] OTHER -> <<>>

\* The expression kind e with its sub-expressions replaced by ts.
WithChildren(e, ts) ==
    CASE e.tag = "SomeLit" -> [e EXCEPT !.x = ts[1]]
      [] e.tag = "RecordLit" ->
            [e EXCEPT !.kvs = [i \in 1..Len(e.kvs) |-> [k |-> e.kvs[i].k, e |-> ts[i]]]]
      [] e.tag = "RecordType" ->
            [e EXCEPT !.kts = [i \in 1..Len(e.kts) |-> [k |-> e.kts[i].k, e |-> ts[i]]]]
      [] e.tag = "UnionType" ->
            [e EXCEPT !.ukts = [i \in 1..Len(e.ukts) |->
                [k |-> e.ukts[i].k,
                 ot |-> IF IsSome(e.ukts[i].ot)
                        THEN Some(ts[Cardinality({j \in 1..i : IsSome(e.ukts[j].ot)})])
                        ELSE None]]]
      [] e.tag = "Field" -> [e EXCEPT !.scrut = ts[1]]
      [] e.tag = "Annot" -> [e EXCEPT !.x = ts[1], !.t = ts[2]]
      [] e.tag = "App" -> [e EXCEPT !.f = ts[1], !.arg = ts[2]]
      [] e.tag = "BoolIf" -> [e EXCEPT !.if_c = ts[1], !.if_y = ts[2], !.if_z = ts[3]]
      [] e.tag = "BinOp" -> [e EXCEPT !.l = ts[1], !.r = ts[2]]
      [] e.tag = "Merge" ->
            [e EXCEPT !.record = ts[1], !.union = ts[2],
                      !.oannot = IF IsSome(e.oannot) THEN Some(ts[3]) ELSE None]
      [] e.tag = "Projection" -> [e EXCEPT !.record = ts[1]]
      [] OTHER -> e

\* TyExpr::new(kind, ty, span)
TyExprNew(kind, ty) == [f \in DOMAIN kind \cup {"ty"} |->
                           IF f = "ty" THEN ty ELSE kind[f]]

(* type_with: ExprKind::Var *)
type_with_Var(env, e, ord) == lookup(env, e.var)

\* The Lam arm once annot and body are typed: body_env is the environment of
\* the body.
LamTyExpr(env, body_env, binder, annot, body) ==
    AndThen(get_type(body), LAMBDA body_ty :
    AndThen(get_type(annot), LAMBDA annot_ty :
    AndThen(get_type(body_ty), LAMBDA body_ty_ty :
    AndThen(type_of_function(annot_ty, body_ty_ty), LAMBDA fty :
    Ok([tag |-> "Lam", binder |-> binder, annot |-> annot, body |-> body,
        ty |-> Some(Eval(as_nzenv(env),
                         [tag |-> "Pi", binder |-> binder, annot |-> annot,
                          body |-> Quote(body_ty, as_varenv(body_env)),
                          ty |-> Some(fty)]))])))))

\* The Lam arm once annot is typed.
LamBody(env, body_env, e, annot, ord) ==
    AndThen(type_with(body_env, e.body, ord), LAMBDA body :
    LamTyExpr(env, body_env, e.binder, annot, body))

(* type_with: ExprKind::Lam *)
type_with_Lam(env, e, ord) ==
    AndThen(type_with(env, e.annot, ord), LAMBDA annot :
    LamBody(env, insert_type(env, e.binder, Eval(as_nzenv(env), annot)),
            e, annot, ord))

\* The Pi arm once annot and body are typed.
PiTyExpr(binder, annot, body) ==
    AndThen(get_type(annot), LAMBDA annot_ty :
    AndThen(get_type(body), LAMBDA body_ty :
    AndThen(type_of_function(annot_ty, body_ty), LAMBDA ty :
    Ok([tag |-> "Pi", binder |-> binder, annot |-> annot, body |-> body,
        ty |-> Some(ty)]))))

(* type_with: ExprKind::Pi *)
type_with_Pi(env, e, ord) ==
    AndThen(type_with(env, e.annot, ord), LAMBDA annot :
    AndThen(type_with(insert_type(env, e.binder, Eval(as_nzenv(env), annot)),
                      e.body, ord),
      LAMBDA body : PiTyExpr(e.binder, annot, body)))

\* The value of a Let, wrapped in its annotation when it has one.
LetVal(e) ==
    IF IsSome(e.oannot)
    THEN [tag |-> "Annot", x |-> e.val, t |-> Unwrap(e.oannot)]
    ELSE e.val

\* The body typed in the environment of the Let itself.
type_with_Let_NoFrame(env, e, ord) ==
    AndThen(type_with(env, LetVal(e), ord), LAMBDA val :
    AndThen(type_with(env, e.body, ord),
      LAMBDA body :
    Ok([tag |-> "Let", binder |-> e.binder, oannot |-> None, val |-> val,
        body |-> body,
        ty |-> body.ty])))

(* type_with: ExprKind::Let *)
type_with_Let(env, e, ord) ==
    AndThen(type_with(env, LetVal(e), ord), LAMBDA val :
    AndThen(type_with(insert_value(env, e.binder, Eval(as_nzenv(env), val)),
                      e.body, ord),
      LAMBDA body :
    Ok([tag |-> "Let", binder |-> e.binder, oannot |-> None, val |-> val,
        body |-> body,
        ty |-> body.ty])))   \* body.get_type().ok()

(* type_with: ExprKind::Const(Const::Sort) *)
type_with_Sort(env, e, ord) == Ok([tag |-> "Const", c |-> "Sort", ty |-> None])

(* type_with: ExprKind::Embed; Value::to_tyexpr_noenv *)
type_with_Embed(env, e, ord) == Ok(Quote(e.p, 0))

\* LayerTyExpr keeping a TyExpr without a type where type_one_layer fails
\* (.ok() in the place of ?).
LayerTyExpr_OkType(env, ekind, ord) ==
    Ok(TyExprNew(ekind, type_one_layer(env, ekind, ord).rv))

\* The default arm once the sub-expressions are typed.
LayerTyExpr(env, ekind, ord) ==
    AndThen(type_one_layer(env, ekind, ord), LAMBDA ty :
    Ok(TyExprNew(ekind, Some(ty))))

(* type_with: every other kind *)
type_with_Layer(env, e, ord) ==
    AndThen(TypeAll(env, Children(e), ord), LAMBDA ts :
    LayerTyExpr(env, WithChildren(e, ts), ord))

type_with(env, e, ord) ==
    CASE e.tag = "Var" -> type_with_Var(env, e, ord)
      [] e.tag = "Lam" -> type_with_Lam(env, e, ord)
      [] e.tag = "Pi" -> type_with_Pi(env, e, ord)
      [] e.tag = "Let" -> type_with_Let(env, e, ord)
      [] e.tag = "Const" /\ e.c = "Sort" -> type_with_Sort(env, e, ord)
      [] e.tag = "Embed" -> type_with_Embed(env, e, ord)
      [] OTHER -> type_with_Layer(env, e, ord)

typecheck(e, ord) == type_with(TyEnvNew, e, ord)

typecheck_with(expr, ty, ord) ==
    typecheck([tag |-> "Annot", x |-> expr, t |-> ty], ord)

(***************************************************************************)
(* The typechecker applied to bounded resolved expressions.                *)
(***************************************************************************)
\* The iteration orders of a HashMap: the permutations of 1..MaxMapKeys.
Orders == {s \in [1..MaxMapKeys -> 1..MaxMapKeys] :
              \A i, j \in 1..MaxMapKeys : i # j => s[i] # s[j]}

ENaturalLit(n) == [tag |-> "NaturalLit", n |-> n]
EBoolLit(b) == [tag |-> "BoolLit", bool |-> b]
EConst(c) == [tag |-> "Const", c |-> c]
EBuiltin(b) == [tag |-> "Builtin", b |-> b]
EVar(x, i) == [tag |-> "Var", var |-> V(x, i)]
ELam(x, a, b) == [tag |-> "Lam", binder |-> x, annot |-> a, body |-> b]
EPi(x, a, b) == [tag |-> "Pi", binder |-> x, annot |-> a, body |-> b]
ELet(x, t, v, b) == [tag |-> "Let", binder |-> x, oannot |-> t, val |-> v, body |-> b]
EApp(f, a) == [tag |-> "App", f |-> f, arg |-> a]
EAnnot(x, t) == [tag |-> "Annot", x |-> x, t |-> t]
ESomeLit(x) == [tag |-> "SomeLit", x |-> x]
EBoolIf(c, y, z) == [tag |-> "BoolIf", if_c |-> c, if_y |-> y, if_z |-> z]
EField(s, l) == [tag |-> "Field", scrut |-> s, label |-> l]
EProjection(r, ls) == [tag |-> "Projection", record |-> r, labels |-> ls]
EMerge(r, u, t) == [tag |-> "Merge", record |-> r, union |-> u, oannot |-> t]
ERightBiasedRecordMerge(l, r) ==
    [tag |-> "BinOp", op |-> "RightBiasedRecordMerge", l |-> l, r |-> r]
EEmbed(p) == [tag |-> "Embed", p |-> p]
KV(k, e) == [k |-> k, e |-> e]
KT(k, ot) == [k |-> k, ot |-> ot]
ERecordLit(kvs) == [tag |-> "RecordLit", kvs |-> kvs]
ERecordType(kts) == [tag |-> "RecordType", kts |-> kts]
EUnionType(ukts) == [tag |-> "UnionType", ukts |-> ukts]

\* { a = 1, b = Type }
RecAB == ERecordLit(<<KV("a", ENaturalLit(1)), KV("b", EConst("Type"))>>)
\* { a = 1 }
RecA == ERecordLit(<<KV("a", ENaturalLit(1))>>)
\* < A | B >.A
UnionAB == EField(EUnionType(<<KT("A", None), KT("B", None)>>), "A")
\* \(x : Natural) -> x
Identity == ELam("x", EBuiltin("Natural"), EVar("x", 0))

\* The resolved expressions handed to the typechecker to start with.
Seeds ==
    { ENaturalLit(1), EBoolLit(TRUE),
      EConst("Type"), EConst("Kind"), EConst("Sort"),
      EBuiltin("Natural"), EBuiltin("Optional"),
      EVar("x", 0), EVar("x", 1), Identity, EApp(Identity, EVar("x", 0)),
      RecA, RecAB, ERecordLit(<<>>),
      ERecordLit(<<KV("a", ENaturalLit(1)), KV("a", EBoolLit(TRUE))>>),
      ERecordType(<<KV("a", EBuiltin("Natural")), KV("b", EConst("Kind"))>>),
      EUnionType(<<KT("A", Some(EBuiltin("Natural"))), KT("B", None)>>),
      UnionAB,
      \* { A = { a = 1, b = Type }.{ a }, B = { a = 1 } }
      ERecordLit(<<KV("A", EProjection(RecAB, <<"a">>)), KV("B", RecA)>>),
      \* { None = 0, Some = \(x : Natural) -> x }
      ERecordLit(<<KV("None", ENaturalLit(0)), KV("Some", Identity)>>),
      \* { Some = 1, a = 1 }, { A = 1 }, { A = 1, B = 1 }
      ERecordLit(<<KV("Some", ENaturalLit(1)), KV("a", ENaturalLit(1))>>),
      ERecordLit(<<KV("A", ENaturalLit(1))>>),
      ERecordLit(<<KV("A", ENaturalLit(1)), KV("B", ENaturalLit(1))>>),
      ELet("x", Some(EBuiltin("Natural")), ENaturalLit(1), EVar("x", 0)),
      EPi("x", EConst("Type"), EVar("x", 0)),
      EMerge(ERecordLit(<<>>), EUnionType(<<>>), Some(EBuiltin("Natural"))),
      EMerge(ERecordLit(<<>>), EUnionType(<<>>), None),
      EEmbed(VSort), EEmbed([vk |-> "NaturalLit", n |-> 1,
                             ty |-> Some(from_builtin("Natural"))]) }

\* The expressions built from e by one more constructor.
Wrappings(e) ==
    { ESomeLit(e),
      ELet("x", None, ENaturalLit(1), e),
      ELam("x", EBuiltin("Natural"), e),
      ELam("x", e, EVar("x", 0)),
      ELet("x", None, e, EVar("x", 0)),
      EApp(e, ENaturalLit(1)),
      EAnnot(e, EBuiltin("Natural")),
      EBoolIf(EBoolLit(TRUE), e, e),
      EBoolIf(e, ENaturalLit(1), EBoolLit(FALSE)),
      EBoolIf(EBoolLit(TRUE), ENaturalLit(1), e),
      EField(e, "a"),
      EProjection(e, <<"a">>),
      ERecordLit(<<KV("a", e), KV("b", EBoolLit(TRUE))>>),
      ERightBiasedRecordMerge(e, RecA),
      EMerge(e, UnionAB, None),
      EMerge(e, UnionAB, Some(EBuiltin("Natural"))),
      EMerge(e, ESomeLit(ENaturalLit(7)), None) }

\* The type recorded in the TyExpr of a successful run, as an expression.
TypeExprOf(r) == ToExpr(Quote(Unwrap(Val(r).ty), 0), <<>>)

TckInit ==
    /\ input = None
    /\ wraps = 0
    /\ runs = <<>>
    /\ annotated = None

\* A resolved expression arrives.
Resolved(e) ==
    /\ input = None
    /\ input' = Some(e)
    /\ UNCHANGED <<wraps, runs, annotated>>

\* The expression is found inside a larger one.
Wrap(e) ==
    /\ IsSome(input)
    /\ runs = <<>>
    /\ wraps < MaxWraps
    /\ e \in Wrappings(Unwrap(input))
    /\ input' = Some(e)
    /\ wraps' = wraps + 1
    /\ UNCHANGED <<runs, annotated>>

\* A run of typecheck(e), its HashMaps iterating in the order ord.
Typecheck(ord) ==
    /\ IsSome(input)
    /\ Len(runs) < 2
    /\ annotated = None
    /\ runs' = Append(runs, [ord |-> ord, res |-> typecheck(Unwrap(input), ord)])
    /\ UNCHANGED <<input, wraps, annotated>>

\* A run of typecheck_with(e, T), T being the type the first run of
\* typecheck(e) gave.
TypecheckWith(ord) ==
    /\ Len(runs) = 1
    /\ annotated = None
    /\ runs[1].res.ok
    /\ IsSome(Val(runs[1].res).ty)
    /\ annotated' = Some([ord |-> ord,
                          res |-> typecheck_with(Unwrap(input),
                                                 TypeExprOf(runs[1].res), ord)])
    /\ UNCHANGED <<input, wraps, runs>>
(***************************************************************************)
(* Specifications                                                          *)
(***************************************************************************)
\* The universe constants, and types and terms that are no constants.
Consts == {"Type", "Kind", "Sort"}

FnTypes ==
    {VType, VKind, VSort,
     from_builtin("Natural"), from_builtin("Bool"), from_builtin("Optional"),
     builtin_app("Optional", from_builtin("Natural")),
     RecordTypeValue(<<>>, VType),
     RecordTypeValue([l \in {"a"} |-> VType], VKind),
     [vk |-> "NaturalLit", n |-> 1, ty |-> Some(from_builtin("Natural"))],
     [vk |-> "BoolLit", bool |-> TRUE, ty |-> Some(from_builtin("Bool"))]}

FnCall(op, a, b, src, tgt, out_c, res) ==
    [op |-> op, a |-> a, b |-> b, src |-> src, tgt |-> tgt,
     out_c |-> out_c, res |-> res]

FnInit == fn_ret = FnCall("none", None, None, None, None, None, None)

FunctionCheck(a, b) ==
    fn_ret' = FnCall("function_check", Some(a), Some(b), None, None,
                     Some(function_check(a, b)), None)

TypeOfFunction(src, tgt) ==
    fn_ret' = FnCall("type_of_function", None, None, Some(src), Some(tgt),
                     None, Some(type_of_function(src, tgt)))

Init == ImportInit /\ NamesInit /\ TckInit /\ FnInit

Next ==
    \/ \E l \in Locations, h \in OptionOf(Hashes) :
            GetFromCache(l, h) /\ UNCHANGED <<nameVars, tckVars, fnVars>>
    \/ \E l \in Locations, h \in OptionOf(Hashes), t \in Typeds :
            SetCache(l, h, t) /\ UNCHANGED <<nameVars, tckVars, fnVars>>
    \/ \E l \in Locations :
            WithCycleDetectionEnter(l) /\ UNCHANGED <<nameVars, tckVars, fnVars>>
    \/ \E r \in ResolveResults :
            WithCycleDetectionReturn(r) /\ UNCHANGED <<nameVars, tckVars, fnVars>>

Spec == Init /\ [][Next]_vars

NextNames ==
    \/ \E x \in Labels : InsertMut(x) /\ UNCHANGED <<importVars, tckVars, fnVars>>
    \/ RemoveMut /\ UNCHANGED <<importVars, tckVars, fnVars>>
    \/ \E x \in Labels, k \in 0..MaxNames :
            UnlabelVar(V(x, k)) /\ UNCHANGED <<importVars, tckVars, fnVars>>
    \/ \E d \in 0..MaxNames : LabelVar(d) /\ UNCHANGED <<importVars, tckVars, fnVars>>

SpecNames == Init /\ [][NextNames]_vars

NextTck ==
    \/ \E e \in Seeds : Resolved(e) /\ UNCHANGED <<importVars, nameVars, fnVars>>
    \/ \E e \in Wrappings(IF IsSome(input) THEN Unwrap(input) ELSE EConst("Type")) :
            Wrap(e) /\ UNCHANGED <<importVars, nameVars, fnVars>>
    \/ \E ord \in Orders : Typecheck(ord) /\ UNCHANGED <<importVars, nameVars, fnVars>>
    \/ \E ord \in Orders : TypecheckWith(ord) /\ UNCHANGED <<importVars, nameVars, fnVars>>

InitTck == Init /\ file_cache = None

NextFn ==
    \/ \E a \in Consts, b \in Consts :
            FunctionCheck(a, b) /\ UNCHANGED <<importVars, nameVars, tckVars>>
    \/ \E src \in FnTypes, tgt \in FnTypes :
            TypeOfFunction(src, tgt) /\ UNCHANGED <<importVars, nameVars, tckVars>>

SpecFn == InitTck /\ [][NextFn]_vars


SpecTck == InitTck /\ [][NextTck]_vars

(***************************************************************************)
(* Claims about ImportEnv (checked under Spec)                             *)
(***************************************************************************)

\* C1: when a with_cycle_detection call whose location was not on the stack
\* returns, the cycle stack is the stack the call was entered with, in depth
\* and content, whether do_resolve returned Ok or Err.
C1_StackRestored ==
    ret.op = "wcd" => stack = ret.pre_stack /\ Len(frames) = ret.pre_depth

\* A nested call has returned the failure of its do_resolve.
C1_Witness ==
    /\ ret.op = "wcd"
    /\ ret.result.tag = "Err"
    /\ Len(ret.pre_stack) = 1
    /\ stack = ret.pre_stack

\* C2: a with_cycle_detection call made while its location is on the stack
\* fails with ImportCycle(the stack as it was, location), does not invoke
\* do_resolve, and leaves the stack and the memory cache as they were.
C2_CycleReported ==
    (ret.op \in {"enter", "wcd_cycle"} /\ Contains(ret.pre_stack, Unwrap(ret.loc)))
        => /\ ret.op = "wcd_cycle"
           /\ ret.result = ImportCycle(ret.pre_stack, Unwrap(ret.loc))
           /\ stack = ret.pre_stack
           /\ mem_cache = ret.pre_mem
           /\ Len(frames) = ret.pre_depth

\* with_cycle_detection(L, e -> with_cycle_detection(L, f)) from an empty
\* stack: the inner call has failed with ImportCycle([L], L).
C2_Witness ==
    /\ ret.op = "wcd_cycle"
    /\ ret.pre_stack = <<1>>
    /\ ret.result = ImportCycle(<<1>>, 1)
    /\ Len(frames) = 1

\* C3: with no with_cycle_detection call in progress the stack is empty.
C3_StackEmptyOutside ==
    frames = <<>> => stack = <<>>

\* A failed with_cycle_detection has completed after a set_cache.
C3_Witness ==
    /\ frames = <<>>
    /\ stack = <<>>
    /\ ret.op = "wcd"
    /\ ret.result.tag = "Err"
    /\ \E l \in Locations : IsSome(mem_cache[l])

\* C4: a get_from_cache for a location returns the Typed of the last
\* set_cache for that location, whatever hash it is given and whatever the
\* persistent cache holds.
C4_WriteBeforeRead ==
    (ret.op = "get" /\ IsSome(written[Unwrap(ret.loc)]))
        => ret.result = ResSome(Unwrap(written[Unwrap(ret.loc)]))

\* A get with a hash, while the persistent cache holds another Typed under
\* that hash than the one written for the location.
C4_Witness ==
    /\ ret.op = "get"
    /\ IsSome(ret.hash)
    /\ IsSome(written[Unwrap(ret.loc)])
    /\ IsSome(file_cache)
    /\ IsSome(Unwrap(file_cache)[Unwrap(ret.hash)])
    /\ Unwrap(file_cache)[Unwrap(ret.hash)] # written[Unwrap(ret.loc)]

\* C5: get_from_cache returns the memory entry when there is one, without
\* asking the persistent cache; otherwise the persistent entry when a hash is
\* given, a persistent cache exists and its lookup succeeds; otherwise a miss.
\* It never returns an error.
C5_GetFromCacheResult ==
    ret.op = "get" =>
        LET mem == ret.pre_mem[Unwrap(ret.loc)] IN
        /\ ret.result.tag \in {"Some", "None"}
        /\ IF IsSome(mem)
           THEN ret.result = ResSome(Unwrap(mem)) /\ ret.probed = None
           ELSE IF IsSome(ret.hash) /\ IsSome(file_cache)
                   /\ IsSome(ret.probed) /\ IsSome(Unwrap(ret.probed))
           THEN ret.result = ResSome(Unwrap(Unwrap(ret.probed)))
           ELSE ret.result = ResNone

\* The persistent cache holds the entry but its lookup failed: a miss.
C5_Witness ==
    /\ ret.op = "get"
    /\ ret.probed = Some(None)
    /\ IsSome(Unwrap(file_cache)[Unwrap(ret.hash)])
    /\ ret.result = ResNone

\* C16: the cycle stack holds no location twice, and it holds the locations
\* of the with_cycle_detection calls in progress, in the order they were
\* entered.
C16_StackDistinctInEntryOrder ==
    /\ \A i, j \in 1..Len(stack) : i < j => stack[i] # stack[j]
    /\ stack = [i \in 1..Len(frames) |-> frames[i].loc]

\* Two nested calls are in progress.
C16_Witness ==
    /\ Len(frames) = 2
    /\ stack = <<frames[1].loc, frames[2].loc>>
    /\ frames[2].entry = <<frames[1].loc>>

\* C17: get_from_cache leaves the memory cache and the cycle stack as they
\* were, also when its result comes from the persistent cache; set_cache
\* leaves the cycle stack as it was and changes the memory cache at its
\* location only.
C17_CacheCallsFrame ==
    /\ ret.op = "get" => mem_cache = ret.pre_mem /\ stack = ret.pre_stack
    /\ ret.op = "set" =>
          /\ stack = ret.pre_stack
          /\ \A l \in Locations \ {Unwrap(ret.loc)} : mem_cache[l] = ret.pre_mem[l]

\* A hit in the persistent cache, made inside a with_cycle_detection call:
\* the memory cache still has no entry for the location.
C17_Witness ==
    /\ ret.op = "get"
    /\ IsSome(ret.probed) /\ IsSome(Unwrap(ret.probed))
    /\ ret.result.tag = "Some"
    /\ mem_cache[Unwrap(ret.loc)] = None
    /\ stack # <<>>

(***************************************************************************)
(* Claims about NameEnv (checked under SpecNames)                          *)
(***************************************************************************)

\* C6: when unlabel_var(V(name, k)) returns an AlphaVar a, label_var(a) is
\* V(name, k); and for every index d below the size of the environment,
\* unlabel_var(label_var(AlphaVar(d))) is AlphaVar(d).
C6_RoundTrip ==
    /\ (nret.op = "unlabel_var" /\ IsSome(nret.out_a))
          => label_var(names, Unwrap(nret.out_a)) = Unwrap(nret.v)
    /\ nret.op = "label_var"
          => unlabel_var(names, Unwrap(nret.out_v)) = nret.a

\* A shadowed variable: x@1 under <<x, y, x>> resolves to index 2.
C6_Witness ==
    /\ nret.op = "unlabel_var"
    /\ names = <<"x", "y", "x">>
    /\ nret.v = Some(V("x", 1))
    /\ nret.out_a = Some(2)

\* The frames of ns labelled name, as positions counted from the outermost
\* frame (1) to the innermost (Len(ns)).
FramesLabelled(ns, name) == {p \in 1..Len(ns) : ns[p] = name}

\* The de Bruijn index of the frame at position p: the number of frames
\* inside it.
DepthOf(ns, p) == Len(ns) - p

\* C14: unlabel_var(V(name, k)) is the de Bruijn index of the (k+1)-th
\* innermost frame labelled name, and none when fewer than k+1 frames carry
\* the label; label_var of a depth d below the size is V(name, k) with name
\* the label at depth d and k the number of frames strictly inside it that
\* carry the same label.
C14_Shadowing ==
    /\ nret.op = "unlabel_var" =>
          LET var == Unwrap(nret.v)
              fs == FramesLabelled(names, var.name)
          IN  IF Cardinality(fs) < var.idx + 1
              THEN nret.out_a = None
              ELSE \E p \in fs :
                      /\ Cardinality({q \in fs : q > p}) = var.idx
                      /\ nret.out_a = Some(DepthOf(names, p))
    /\ nret.op = "label_var" =>
          LET d == Unwrap(nret.a)
              p == Len(names) - d
          IN  /\ Unwrap(nret.out_v).name = names[p]
              /\ Unwrap(nret.out_v).idx =
                     Cardinality({q \in FramesLabelled(names, names[p]) : q > p})

\* label_var of the outer of two frames labelled x, under a frame labelled y.
C14_Witness ==
    /\ nret.op = "label_var"
    /\ names = <<"x", "x", "y">>
    /\ nret.a = Some(2)
    /\ nret.out_v = Some(V("x", 1))

(***************************************************************************)
(* Claims about the typechecker (SpecTck).                                 *)
(***************************************************************************)
\* The results of the runs of typecheck and typecheck_with made so far.
Results ==
    {runs[i].res : i \in 1..Len(runs)} \cup
    (IF IsSome(annotated) THEN {Unwrap(annotated).res} ELSE {})

IsSort(te) == te.tag = "Const" /\ te.c = "Sort"

\* A TyExpr that is Sort under any number of Lets.
RECURSIVE SortUnderLets(_)
SortUnderLets(te) == IsSort(te) \/ (te.tag = "Let" /\ SortUnderLets(te.body))

\* C7 as stated: a TyExpr returned by a successful run has a recorded type
\* unless it is Const Sort.
C7_OnlySortUntyped ==
    \A r \in Results : r.ok /\ Val(r).ty = None => IsSort(Val(r))

\* C7: a TyExpr returned by a successful run has no recorded type exactly
\* when it is Const Sort or a Let whose body, in turn, has no recorded type;
\* every other TyExpr returned has a recorded type.
C7_UntypedIsSortUnderLets ==
    \A r \in Results : r.ok => (Val(r).ty = None <=> SortUnderLets(Val(r)))

C7_Witness ==
    \E r \in Results :
        /\ r.ok /\ Val(r).ty = None
        /\ Val(r).tag = "Let" /\ IsSort(Val(r).body)

\* The largest of the universes S, Type when there is none.
MaxUniverse(S) ==
    CHOOSE c \in S \cup {"Type"} :
        \A d \in S \cup {"Type"} : ConstRank(c) >= ConstRank(d)

\* The universes recorded for the field types of the record type value T.
FieldUniverses(T) == {Unwrap(T.vkts[l].ty).c : l \in DOMAIN T.vkts}

BuildsRecordType(te) ==
    \/ te.tag \in {"RecordLit", "Projection"}
    \/ te.tag = "BinOp" /\ te.op = "RightBiasedRecordMerge"

\* C8: the universe recorded for a record type the typechecker constructs
\* (the type of a RecordLit, of a RightBiasedRecordMerge or of a Projection,
\* and a RecordType expression) is the maximum of the universes of its field
\* types, Type when it has no fields.
C8_RecordTypeUniverse ==
    \A r \in Results : r.ok =>
        /\ BuildsRecordType(Val(r)) =>
              LET T == Unwrap(Val(r).ty) IN
              as_const(Unwrap(T.ty)) = Some(MaxUniverse(FieldUniverses(T)))
        /\ Val(r).tag = "RecordType" =>
              as_const(Unwrap(Val(r).ty)) =
                 Some(MaxUniverse({Unwrap(Val(r).kts[i].e.ty).c :
                                      i \in 1..Len(Val(r).kts)}))

\* C9: when typecheck(e) succeeds with type T, typecheck_with(e, T) succeeds
\* too and its result has the type T.
C9_Reannotate ==
    IsSome(annotated) =>
        /\ Unwrap(annotated).res.ok
        /\ IsSome(Val(Unwrap(annotated).res).ty)
        /\ ValueEq(Unwrap(Val(Unwrap(annotated).res).ty),
                   Unwrap(Val(runs[1].res).ty))

\* Both runs made of typecheck fail or both succeed.
SameOutcome == Len(runs) = 2 => runs[1].res.ok = runs[2].res.ok

\* C10: two runs of typecheck on the same expression end alike, whatever
\* the orders their maps iterate in: both fail, or both succeed with the
\* same TyExpr.
C10_Deterministic ==
    /\ SameOutcome
    /\ Len(runs) = 2 /\ runs[1].res.ok /\ runs[2].res.ok =>
          Val(runs[1].res) = Val(runs[2].res)

\* The input is an if whose three parts typecheck on their own.
IfOfTypedParts(i) ==
    /\ IsSome(input)
    /\ Unwrap(input).tag = "BoolIf"
    /\ typecheck(Unwrap(input).if_c, runs[i].ord).ok
    /\ typecheck(Unwrap(input).if_y, runs[i].ord).ok
    /\ typecheck(Unwrap(input).if_z, runs[i].ord).ok

IsBool(T) == T.vk = "AppliedBuiltin" /\ T.b = "Bool" /\ T.args = <<>>

\* te has a type, that type has a type, and the latter is Type.
IsTerm(te) ==
    /\ IsSome(te.ty)
    /\ IsSome(Unwrap(te.ty).ty)
    /\ Unwrap(Unwrap(te.ty).ty).vk = "Const"
    /\ Unwrap(Unwrap(te.ty).ty).c = "Type"

\* te is Sort, or its type is Sort: the universe of its type cannot be read.
NoUniverse(te) == te.ty = None \/ Unwrap(te.ty).ty = None

\* The error C13 names for an if over the typed parts c, y, z; "" for none.
IfErrorStated(c, y, z) ==
    IF c.ty = None \/ ~IsBool(Unwrap(c.ty)) THEN "InvalidPredicate"
    ELSE IF ~IsTerm(y) \/ ~IsTerm(z) THEN "IfBranchMustBeTerm"
    ELSE IF ~ValueEq(Unwrap(y.ty), Unwrap(z.ty)) THEN "IfBranchMismatch"
    ELSE ""

\* The same, with the error of get_type where a type is missing.
IfErrorAmended(c, y, z) ==
    IF c.ty = None THEN "Sort has no type"
    ELSE IF ~IsBool(Unwrap(c.ty)) THEN "InvalidPredicate"
    ELSE IF NoUniverse(y) THEN "Sort has no type"
    ELSE IF ~IsTerm(y) THEN "IfBranchMustBeTerm"
    ELSE IF NoUniverse(z) THEN "Sort has no type"
    ELSE IF ~IsTerm(z) THEN "IfBranchMustBeTerm"
    ELSE IF ~ValueEq(Unwrap(y.ty), Unwrap(z.ty)) THEN "IfBranchMismatch"
    ELSE ""

\* The run res ends as err says: with that error, or with the type of y.
IfEndsWith(res, err, y) ==
    IF err = ""
    THEN res.ok /\ IsSome(Val(res).ty) /\ ValueEq(Unwrap(Val(res).ty), Unwrap(y.ty))
    ELSE ~res.ok /\ res.err = err

\* C13 as stated: an if over typed parts succeeds with the type of y exactly
\* when the type of c is Bool, the types of y and z are in Type and are
\* equal; it fails with InvalidPredicate when c is not Bool, else with
\* IfBranchMustBeTerm when a branch type is not in Type, else with
\* IfBranchMismatch.
C13_IfOutcomeStated ==
    \A i \in 1..Len(runs) : IfOfTypedParts(i) =>
        IfEndsWith(runs[i].res,
                   IfErrorStated(Val(typecheck(Unwrap(input).if_c, runs[i].ord)),
                                 Val(typecheck(Unwrap(input).if_y, runs[i].ord)),
                                 Val(typecheck(Unwrap(input).if_z, runs[i].ord))),
                   Val(typecheck(Unwrap(input).if_y, runs[i].ord)))

\* C13: an if over typed parts fails with the error of get_type when c has
\* no type; else with InvalidPredicate when the type of c is not Bool; else,
\* for y and then for z, with the error of get_type when the branch or its
\* type has no type and with IfBranchMustBeTerm when the type of its type is
\* not Type; else with IfBranchMismatch when the types of y and z differ;
\* else it succeeds with the type of y.  if True then 1 else False fails
\* with IfBranchMismatch.
C13_IfOutcome ==
    \A i \in 1..Len(runs) :
        /\ IfOfTypedParts(i) =>
              IfEndsWith(runs[i].res,
                   IfErrorAmended(Val(typecheck(Unwrap(input).if_c, runs[i].ord)),
                                  Val(typecheck(Unwrap(input).if_y, runs[i].ord)),
                                  Val(typecheck(Unwrap(input).if_z, runs[i].ord))),
                   Val(typecheck(Unwrap(input).if_y, runs[i].ord)))
        /\ input = Some(EBoolIf(EBoolLit(TRUE), ENaturalLit(1), EBoolLit(FALSE))) =>
              ~runs[i].res.ok /\ runs[i].res.err = "IfBranchMismatch"

\* if True then 1 else Kind fails with the error of get_type: Sort, the type
\* of Kind, has no type.
C13_Witness ==
    /\ input = Some(EBoolIf(EBoolLit(TRUE), ENaturalLit(1), EConst("Kind")))
    /\ Len(runs) >= 1
    /\ ~runs[1].res.ok
    /\ runs[1].res.err = "Sort has no type"


\* T is a union type, or Optional of one type.
IsUnionOrOptional(T) ==
    \/ T.vk = "UnionType"
    \/ T.vk = "AppliedBuiltin" /\ T.b = "Optional" /\ Len(T.args) = 1

\* The variants of T: label to optional type, Optional X as < None | Some : X >.
VariantsOf(T) ==
    IF T.vk = "UnionType" THEN T.vukts
    ELSE [l \in {"None", "Some"} |-> IF l = "Some" THEN Some(T.args[1]) ELSE None]

\* The typed record, merged value and annotation of the merge given as input.
MergeRecord(i) == typecheck(Unwrap(input).record, runs[i].ord)
MergeUnion(i) == typecheck(Unwrap(input).union, runs[i].ord)
MergeAnnot(i) ==
    IF IsSome(Unwrap(input).oannot)
    THEN Some(Eval(<<>>, Val(typecheck(Unwrap(Unwrap(input).oannot), runs[i].ord))))
    ELSE None

\* The input is a merge whose parts typecheck on their own, of a record of
\* handlers and a value of a union type or of an Optional type.
MergeOfTypedParts(i) ==
    /\ IsSome(input)
    /\ Unwrap(input).tag = "Merge"
    /\ MergeRecord(i).ok /\ IsSome(Val(MergeRecord(i)).ty)
    /\ MergeUnion(i).ok /\ IsSome(Val(MergeUnion(i)).ty)
    /\ IsSome(Unwrap(input).oannot) =>
          typecheck(Unwrap(Unwrap(input).oannot), runs[i].ord).ok
    /\ Unwrap(Val(MergeRecord(i)).ty).vk = "RecordType"
    /\ IsUnionOrOptional(Unwrap(Val(MergeUnion(i)).ty))

MergeHandlersOf(i) == Unwrap(Val(MergeRecord(i)).ty).vkts
MergeVariantsOf(i) == VariantsOf(Unwrap(Val(MergeUnion(i)).ty))

\* The handlers that pass their own check against the variants Vs.
GoodHandlers(H, Vs) ==
    {x \in DOMAIN H : MergeHandlerReturnType(Vs, x, H[x]).ok}

\* The errors the handlers H can raise against the variants Vs: the error of
\* a handler that fails its own check, and MergeHandlerTypeMismatch when two
\* handlers return different types.
HandlerErrors(H, Vs) ==
    {MergeHandlerReturnType(Vs, x, H[x]).err : x \in DOMAIN H \ GoodHandlers(H, Vs)}
    \cup (IF \E x, y \in GoodHandlers(H, Vs) :
                ~ValueEq(Val(MergeHandlerReturnType(Vs, x, H[x])),
                         Val(MergeHandlerReturnType(Vs, y, H[y])))
          THEN {"MergeHandlerTypeMismatch"} ELSE {})

\* res succeeds with a type equal to the return type of every handler, and
\* to t when there is a t.
MergeSucceeds(res, H, Vs, t) ==
    /\ res.ok /\ IsSome(Val(res).ty)
    /\ DOMAIN H = DOMAIN Vs
    /\ \A x \in DOMAIN H :
          /\ MergeHandlerReturnType(Vs, x, H[x]).ok
          /\ ValueEq(Unwrap(Val(res).ty), Val(MergeHandlerReturnType(Vs, x, H[x])))
    /\ IsSome(t) => ValueEq(Unwrap(Val(res).ty), Unwrap(t))

\* A merge without handlers and without variants has the type t, and needs
\* one.
MergeOfNothing(res, H, Vs, t) ==
    DOMAIN H = {} /\ DOMAIN Vs = {} =>
        IF IsSome(t)
        THEN res.ok /\ IsSome(Val(res).ty) /\ ValueEq(Unwrap(Val(res).ty), Unwrap(t))
        ELSE ~res.ok /\ res.err = "MergeEmptyNeedsAnnotation"

MergeAsStated(res, H, Vs, t) ==
    /\ res.ok => MergeSucceeds(res, H, Vs, t)
    /\ DOMAIN H \ DOMAIN Vs # {} =>
          ~res.ok /\ res.err = "MergeHandlerMissingVariant"
    /\ DOMAIN H \subseteq DOMAIN Vs /\ DOMAIN Vs \ DOMAIN H # {} =>
          ~res.ok /\ res.err = "MergeVariantMissingHandler"
    /\ MergeOfNothing(res, H, Vs, t)

MergeAsAmended(res, H, Vs, t) ==
    /\ res.ok => MergeSucceeds(res, H, Vs, t)
    /\ HandlerErrors(H, Vs) # {} =>
          ~res.ok /\ res.err \in HandlerErrors(H, Vs)
    /\ HandlerErrors(H, Vs) = {} /\ DOMAIN Vs \ DOMAIN H # {} =>
          ~res.ok /\ res.err = "MergeVariantMissingHandler"
    /\ HandlerErrors(H, Vs) = {} /\ DOMAIN Vs = DOMAIN H /\ DOMAIN H # {} =>
          IF IsSome(t) /\ \E x \in DOMAIN H :
                ~ValueEq(Unwrap(t), Val(MergeHandlerReturnType(Vs, x, H[x])))
          THEN ~res.ok /\ res.err = "MergeAnnotMismatch"
          ELSE res.ok
    /\ MergeOfNothing(res, H, Vs, t)

RECURSIVE Scoped(_, _)
Scoped(e, ns) ==
    CASE e.tag = "Var" -> unlabel_var(ns, e.var) # None
      [] e.tag \in {"Lam", "Pi"} ->
            Scoped(e.annot, ns) /\ Scoped(e.body, Push(ns, e.binder))
      [] e.tag = "Let" ->
            Scoped(LetVal(e), ns) /\ Scoped(e.body, Push(ns, e.binder))
      [] e.tag = "Embed" -> TRUE
      [] OTHER -> \A i \in 1..Len(Children(e)) : Scoped(Children(e)[i], ns)

\* In the TyExpr te made from e, every variable is resolved to the de Bruijn
\* index of its binder among the binders ns enclosing it.
RECURSIVE ResolvedIn(_, _, _)
ResolvedIn(e, te, ns) ==
    CASE e.tag = "Var" ->
            te.tag = "AVar" /\ Some(te.idx) = unlabel_var(ns, e.var)
      [] e.tag \in {"Lam", "Pi"} ->
            /\ te.tag = e.tag
            /\ ResolvedIn(e.annot, te.annot, ns)
            /\ ResolvedIn(e.body, te.body, Push(ns, e.binder))
      [] e.tag = "Let" ->
            /\ te.tag = "Let"
            /\ ResolvedIn(LetVal(e), te.val, ns)
            /\ ResolvedIn(e.body, te.body, Push(ns, e.binder))
      [] e.tag = "Embed" -> TRUE
      [] OTHER ->
            /\ te.tag = e.tag
            /\ Len(Children(te)) = Len(Children(e))
            /\ \A i \in 1..Len(Children(e)) :
                  ResolvedIn(Children(e)[i], Children(te)[i], ns)

\* C15: typecheck types every subexpression under exactly the binders that
\* enclose it.  The annotation of a Lam or Pi and the value (with its
\* annotation) of a Let are typed in the environment of the Lam, Pi or Let,
\* the body in that environment and one more frame, and the parts typed
\* after a part see the environment as it was before: a run succeeds only if
\* every variable is bound by an enclosing binder, it resolves every
\* variable to the index of that binder counted over the enclosing binders,
\* and it reports an unbound variable only where there is one.
C15_ScopeDiscipline ==
    \A i \in 1..Len(runs) :
        /\ runs[i].res.ok =>
              /\ Scoped(Unwrap(input), <<>>)
              /\ ResolvedIn(Unwrap(input), Val(runs[i].res), <<>>)
        /\ ~runs[i].res.ok /\ runs[i].res.err = "unbound variable" =>
              ~Scoped(Unwrap(input), <<>>)

\* \(x : Natural) -> let x = x in x: the value of the Let is the variable of
\* the Lam, the body of the Let is the variable of the Let.
C15_Witness ==
    /\ input = Some(ELam("x", EBuiltin("Natural"),
                         ELet("x", None, EVar("x", 0), EVar("x", 0))))
    /\ Len(runs) >= 1
    /\ runs[1].res.ok
    /\ Val(runs[1].res).body.val.idx = 0
    /\ Val(runs[1].res).body.body.idx = 0
    /\ Val(runs[1].res).body.val.ty = Some(from_builtin("Natural"))


(***************************************************************************)
(* Claims about function types (checked under SpecFn)                      *)
(***************************************************************************)

\* The universe of a function type, as a table: Type when the codomain is in
\* Type, else the larger of the two universes.
FunctionUniverse(a, b) ==
    CASE b = "Type" -> "Type"
      [] b = "Kind" -> IF a = "Sort" THEN "Sort" ELSE "Kind"
      [] b = "Sort" -> "Sort"

IsUniverse(v) == v \in {VType, VKind, VSort}

\* C11: function_check(a, b) is Type when b is Type and the larger of a and
\* b otherwise; type_of_function(src, tgt) returns that constant when both
\* are universe constants, fails with InvalidInputType when src is no
\* constant, and otherwise with InvalidOutputType when tgt is no constant.
C11_FunctionUniverse ==
    /\ fn_ret.op = "function_check" =>
          fn_ret.out_c = Some(FunctionUniverse(Unwrap(fn_ret.a), Unwrap(fn_ret.b)))
    /\ fn_ret.op = "type_of_function" =>
          LET src == Unwrap(fn_ret.src)
              tgt == Unwrap(fn_ret.tgt)
              res == Unwrap(fn_ret.res)
          IN  IF ~IsUniverse(src)
              THEN ~res.ok /\ res.err = "InvalidInputType"
              ELSE IF ~IsUniverse(tgt)
              THEN ~res.ok /\ res.err = "InvalidOutputType"
              ELSE /\ res.ok
                   /\ IsUniverse(Val(res))
                   /\ Val(res).c = FunctionUniverse(src.c, tgt.c)

\* A function from a kind to a type is in Type.
C11_Witness ==
    /\ fn_ret.op = "type_of_function"
    /\ fn_ret.src = Some(VKind)
    /\ fn_ret.tgt = Some(VType)
    /\ fn_ret.res = Some(Ok(VType))

=============================================================================
